---- MODULE Spec2Model ----
(***************************************************************************)
(* A model of the covid_analysis data-transformation core.                 *)
(*                                                                         *)
(* A table (pandas DataFrame) is a sequence of rows; a row is a record     *)
(* [name |-> country, vals |-> sequence of cells], one cell per date       *)
(* column.  A cell is an exact rational [n |-> numerator, d |->            *)
(* denominator] in lowest terms with d > 0; the missing value (NaN) is the *)
(* cell with d = 0.  The string columns of the raw CSV (Province/State,    *)
(* Lat, Long) carry no value any transform reads and are left out.         *)
(***************************************************************************)
EXTENDS Integers, Sequences, FiniteSets, TLC

VARIABLES
    raw,        \* the raw CSV-shaped table the session starts from
    rawPop,     \* the World Bank population file (name, 2018 head count)
    arg,        \* the table handed to the last call
    res,        \* the table the last call returned
    call,       \* the last call: [fn |-> name, cfg |-> its configuration]
    kind        \* shape of res: "raw", "table" or "population"

vars == <<raw, rawPop, arg, res, call, kind>>

----------------------------------------------------------------------------
(* Bounds of the explored inputs *)

MaxVal == 1          \* counts in the generated tables range over 0..MaxVal
MaxRows == 3         \* rows of a generated multi-country raw table
LongDates == 3       \* date columns of a generated single-country table
MaxWindow == 2       \* rolling windows 1..MaxWindow (one more for the worked example)
MaxThreshold == 1    \* thresholds 1..MaxThreshold
MaxObjects == 5      \* table objects alive at once in the explored call sequences

----------------------------------------------------------------------------
(* Exact arithmetic on cells *)

NaN == [n |-> 0, d |-> 0]

IsNaN(x) == x.d = 0

Abs(k) == IF k < 0 THEN -k ELSE k

RECURSIVE GCD(_, _)
GCD(a, b) == IF b = 0 THEN a ELSE GCD(b, a % b)

\* the rational n/d (d # 0) in lowest terms with a positive denominator
Q(n, d) ==
    LET g == GCD(Abs(n), Abs(d))
        s == IF d < 0 THEN -1 ELSE 1
    IN  [n |-> (s * n) \div g, d |-> (s * d) \div g]

Num(k) == [n |-> k, d |-> 1]

\* float arithmetic: any operation on a missing operand is missing
Sub(x, y) == IF IsNaN(x) \/ IsNaN(y) THEN NaN ELSE Q(x.n * y.d - y.n * x.d, x.d * y.d)

Add(x, y) == IF IsNaN(x) \/ IsNaN(y) THEN NaN ELSE Q(x.n * y.d + y.n * x.d, x.d * y.d)

\* x / y for a non-zero y
Div(x, y) == IF IsNaN(x) \/ IsNaN(y) THEN NaN ELSE Q(x.n * y.d, x.d * y.n)

\* x > y; a comparison with a missing operand is false
Gt(x, y) == ~IsNaN(x) /\ ~IsNaN(y) /\ x.n * y.d > y.n * x.d

Ge(x, y) == ~IsNaN(x) /\ ~IsNaN(y) /\ x.n * y.d >= y.n * x.d

----------------------------------------------------------------------------
(* Country names *)

\* every country name of the explored inputs, in ascending string order
\* (the order pandas' groupby sorts its keys in)
NameOrder == <<"Canada", "Holy See", "Kosovo", "US", "United States">>

NameRank(c) == CHOOSE i \in 1..Len(NameOrder) : NameOrder[i] = c

\* the dict country_name_mapper (the apostrophe of the Korea key is written
\* in ASCII)
country_name_aliases ==
    [x \in {"United States", "Russian Federation", "Korea, Dem. People's Rep.",
            "Iran, Islamic Rep.", "Czech Republic", "Egypt, Arab Rep.",
            "Brunei Darussalam", "Congo, Rep.", "Congo, Dem. Rep.",
            "Kyrgyz Republic", "Venezuela, RB", "Slovak Republic",
            "Syrian Arab Republic", "Lao PDR", "Yemen, Rep.", "Myanmar", "Congo",
            "Democratic Republic of Congo", "Cape Verde"} |->
        CASE x = "United States" -> "US"
          [] x = "Russian Federation" -> "Russia"
          [] x = "Korea, Dem. People's Rep." -> "Korea, South"
          [] x = "Iran, Islamic Rep." -> "Iran"
          [] x = "Czech Republic" -> "Czechia"
          [] x = "Egypt, Arab Rep." -> "Egypt"
          [] x = "Brunei Darussalam" -> "Brunei"
          [] x = "Congo, Rep." -> "Congo (Brazzaville)"
          [] x = "Congo, Dem. Rep." -> "Congo (Kinshasa)"
          [] x = "Kyrgyz Republic" -> "Kyrgyzstan"
          [] x = "Venezuela, RB" -> "Venezuela"
          [] x = "Slovak Republic" -> "Slovakia"
          [] x = "Syrian Arab Republic" -> "Syria"
          [] x = "Lao PDR" -> "Laos"
          [] x = "Yemen, Rep." -> "Yemen"
          [] x = "Myanmar" -> "Burma"
          [] x = "Congo" -> "Congo (Brazzaville)"
          [] x = "Democratic Republic of Congo" -> "Congo (Kinshasa)"
          [] x = "Cape Verde" -> "Cabo Verde"]

\* country_name_mapper.get(country_name): None for a name that is no key
country_name_mapper_get_none(x) ==
    IF x \in DOMAIN country_name_aliases THEN country_name_aliases[x] ELSE "None"

\* country_name_mapper.get(country_name, country_name)
country_name_mapper(x) ==
    IF x \in DOMAIN country_name_aliases THEN country_name_aliases[x] ELSE x

data_to_drop == {"Diamond Princess", "Holy See", "Taiwan*", "MS Zaandam", "Western Sahara"}

Last(s) == s[Len(s)]

Names(t) == {t[i].name : i \in 1..Len(t)}

NumCols(t) == IF Len(t) = 0 THEN 0 ELSE Len(t[1].vals)

Head_(t, k) == IF Len(t) <= k THEN t ELSE SubSeq(t, 1, k)

----------------------------------------------------------------------------
(* data_utils.py *)

\* groupby(...).sum() skips missing values: a missing cell adds 0
RECURSIVE SumCol(_, _, _)
SumCol(t, c, j) ==
    IF Len(t) = 0 THEN Num(0)
    ELSE LET rest == SumCol(Tail(t), c, j)
         IN  IF t[1].name = c /\ ~IsNaN(t[1].vals[j]) THEN Add(t[1].vals[j], rest)
             ELSE rest

\* the names of S in ascending order
RECURSIVE SortedNames(_)
SortedNames(S) ==
    IF S = {} THEN <<>>
    ELSE LET m == CHOOSE c \in S : \A o \in S : NameRank(c) <= NameRank(o)
         IN  <<m>> \o SortedNames(S \ {m})

\* preprocess_covid_data without the removal of the data_to_drop names
preprocess_keeping_all_names(data) ==
    LET keys == SortedNames(Names(data))
    IN  [i \in 1..Len(keys) |->
            [name |-> keys[i],
             vals |-> [j \in 1..NumCols(data) |-> SumCol(data, keys[i], j)]]]

preprocess_covid_data(data) ==
    LET keys == SortedNames(Names(data))
        grouped_data == [i \in 1..Len(keys) |->
            [name |-> keys[i],
             vals |-> [j \in 1..NumCols(data) |-> SumCol(data, keys[i], j)]]]
    IN  SelectSeq(grouped_data, LAMBDA r : r.name \notin data_to_drop)

\* x.split(','): the pieces of x between its commas
split_comma(x) ==
    CASE x = "Bahamas, The" -> <<"Bahamas", " The">>
      [] x = "Gambia, The" -> <<"Gambia", " The">>
      [] x = "Congo, The, Rep." -> <<"Congo", " The", " Rep.">>
      [] x = "The, Gambia" -> <<"The", " Gambia">>
      [] x = "Korea, Rep." -> <<"Korea", " Rep.">>
      [] x = "Micronesia, Fed. Sts." -> <<"Micronesia", " Fed. Sts.">>
      [] x = "Korea, Dem. People's Rep." -> <<"Korea", " Dem. People's Rep.">>
      [] x = "Iran, Islamic Rep." -> <<"Iran", " Islamic Rep.">>
      [] x = "Egypt, Arab Rep." -> <<"Egypt", " Arab Rep.">>
      [] x = "Congo, Rep." -> <<"Congo", " Rep.">>
      [] x = "Congo, Dem. Rep." -> <<"Congo", " Dem. Rep.">>
      [] x = "Venezuela, RB" -> <<"Venezuela", " RB">>
      [] x = "Yemen, Rep." -> <<"Yemen", " Rep.">>
      [] OTHER -> <<x>>

\* x.split(',')[0] if len(x.split(',')) > 1 and x.split(',')[1] == ' The' else x
strip_the(x) ==
    IF Len(split_comma(x)) > 1 /\ split_comma(x)[2] = " The"
    THEN split_comma(x)[1] ELSE x

\* x.replace('St.', 'Saint') if 'St.' in x else x
st_to_saint(x) ==
    CASE x = "St. Lucia" -> "Saint Lucia"
      [] x = "St. Kitts and Nevis" -> "Saint Kitts and Nevis"
      [] x = "St. Vincent and the Grenadines" -> "Saint Vincent and the Grenadines"
      [] x = "St. Martin (French part)" -> "Saint Martin (French part)"
      [] OTHER -> x

\* the three rewritings fetch_population_data applies to a Country Name
canonical_country_name(x) == country_name_mapper(st_to_saint(strip_the(x)))

PER_MILLION == 1000000

\* the population file with canonical names and head counts in millions
fetch_population_data(file) ==
    [i \in 1..Len(file) |->
        [name |-> canonical_country_name(file[i].name),
         vals |-> <<Div(file[i].pop, Num(PER_MILLION))>>]]

\* extract_matching_population_data without the isin filter
extract_all_population_data(covid_data, file) == fetch_population_data(file)

\* DataFrame branch: the rows of the population data whose name is in the
\* index of covid_data, indexed by name
extract_matching_population_data(covid_data, file) ==
    SelectSeq(fetch_population_data(file), LAMBDA r : r.name \in Names(covid_data))

----------------------------------------------------------------------------
(* data_analysis.py *)

\* population_data.loc[country].values for a country of the index
PopOf(population_data, country) ==
    LET i == CHOOSE k \in 1..Len(population_data) : population_data[k].name = country
    IN  population_data[i].vals[1]

\* normalise_by_population_count without the else branch: a row with no
\* population keeps its values
normalise_keeping_unmatched(covid_data, population_data) ==
    [i \in 1..Len(covid_data) |->
        IF covid_data[i].name \in Names(population_data)
        THEN [name |-> covid_data[i].name,
              vals |-> [j \in 1..Len(covid_data[i].vals) |->
                  Div(covid_data[i].vals[j], PopOf(population_data, covid_data[i].name))]]
        ELSE covid_data[i]]

normalise_by_population_count(covid_data, population_data) ==
    [i \in 1..Len(covid_data) |->
        IF covid_data[i].name \in Names(population_data)
        THEN [name |-> covid_data[i].name,
              vals |-> [j \in 1..Len(covid_data[i].vals) |->
                  Div(covid_data[i].vals[j], PopOf(population_data, covid_data[i].name))]]
        ELSE [name |-> covid_data[i].name,
              vals |-> [j \in 1..Len(covid_data[i].vals) |-> NaN]]]

\* a sorts strictly before b in a descending sort that puts missing values last
Before(a, b) == ~IsNaN(a) /\ (IsNaN(b) \/ Gt(a, b))

\* s (sorted) with row r put after every row that does not sort after it
RECURSIVE InsertRow(_, _)
InsertRow(s, r) ==
    IF Len(s) = 0 THEN <<r>>
    ELSE IF Before(Last(r.vals), Last(s[1].vals)) THEN <<r>> \o s
         ELSE <<s[1]>> \o InsertRow(Tail(s), r)

RECURSIVE SortRows(_, _)
SortRows(done, todo) ==
    IF Len(todo) = 0 THEN done ELSE SortRows(InsertRow(done, todo[1]), Tail(todo))

\* data.sort_values(data.columns[-1], ascending=False): descending by the last
\* column, missing values last, equal keys in their incoming order
sort_data_ascending(data) == SortRows(<<>>, data)

\* data - data.shift(-1, axis=1): the shift taken the wrong way
daily_changes_shifted_back(data) ==
    [i \in 1..Len(data) |->
        [name |-> data[i].name,
         vals |-> [j \in 1..Len(data[i].vals) |->
             IF j = Len(data[i].vals) THEN NaN
             ELSE Sub(data[i].vals[j], data[i].vals[j + 1])]]]

\* data - data.shift(1, axis=1)
calculate_daily_changes(data) ==
    [i \in 1..Len(data) |->
        [name |-> data[i].name,
         vals |-> [j \in 1..Len(data[i].vals) |->
             IF j = 1 THEN NaN ELSE Sub(data[i].vals[j], data[i].vals[j - 1])]]]

\* the sum of v[lo..hi]; missing when any of them is
RECURSIVE WindowSum(_, _, _)
WindowSum(v, lo, hi) ==
    IF lo > hi THEN Num(0) ELSE Add(v[lo], WindowSum(v, lo + 1, hi))

\* data.rolling(num_days, axis=1, min_periods=1).mean(): a shorter window at
\* the first dates
rolling_average_min_periods_one(data, num_days) ==
    [i \in 1..Len(data) |->
        [name |-> data[i].name,
         vals |-> [j \in 1..Len(data[i].vals) |->
             IF j < num_days THEN Div(WindowSum(data[i].vals, 1, j), Num(j))
             ELSE Div(WindowSum(data[i].vals, j - num_days + 1, j), Num(num_days))]]]

\* data.rolling(num_days, axis=1).mean(): min_periods is the window
calculate_rolling_average(data, num_days) ==
    [i \in 1..Len(data) |->
        [name |-> data[i].name,
         vals |-> [j \in 1..Len(data[i].vals) |->
             IF j < num_days THEN NaN
             ELSE Div(WindowSum(data[i].vals, j - num_days + 1, j), Num(num_days))]]]

\* covid_data[covid_data > threshold]
mask_above_threshold(covid_data, threshold) ==
    [i \in 1..Len(covid_data) |->
        [name |-> covid_data[i].name,
         vals |-> [j \in 1..Len(covid_data[i].vals) |->
             IF Gt(covid_data[i].vals[j], Num(threshold)) THEN covid_data[i].vals[j]
             ELSE NaN]]]

\* adjusted_data[adjusted_data.index.isin(country_set)]
filter_country_set(data, country_set) ==
    SelectSeq(data, LAMBDA r : r.name \in country_set)

\* an unset threshold (None), an unset num_presort_countries (None, or the
\* equally falsy 0) and an unset country_set (None, or the equally falsy [])
None == -1
NoPresort == 0
NoCountries == {}

\* process_covid_data with the presort made after the normalization
process_presorting_after_normalising(covid_data, cfg, file) ==
    LET t0 == preprocess_covid_data(covid_data)
        t1 == IF cfg.get_daily_change THEN calculate_daily_changes(t0) ELSE t0
        t2 == IF cfg.get_rolling_average
              THEN calculate_rolling_average(t1, cfg.num_rolling_average_days) ELSE t1
        t3 == IF cfg.normalise_by_population
              THEN normalise_by_population_count(
                       t2, extract_matching_population_data(t2, file))
              ELSE t2
        t4 == IF cfg.num_presort_countries # NoPresort
              THEN Head_(sort_data_ascending(t3), cfg.num_presort_countries) ELSE t3
    IN  sort_data_ascending(t4)

\* process_covid_data normalising whatever normalise_by_population says
process_always_normalising(covid_data, cfg, file) ==
    LET t0 == preprocess_covid_data(covid_data)
        t1 == IF cfg.get_daily_change THEN calculate_daily_changes(t0) ELSE t0
        t2 == IF cfg.get_rolling_average
              THEN calculate_rolling_average(t1, cfg.num_rolling_average_days) ELSE t1
        t3 == IF cfg.num_presort_countries # NoPresort
              THEN Head_(sort_data_ascending(t2), cfg.num_presort_countries) ELSE t2
    IN  sort_data_ascending(
            normalise_by_population_count(
                t3, extract_matching_population_data(t3, file)))

process_covid_data(covid_data, cfg, file) ==
    LET t0 == preprocess_covid_data(covid_data)
        t1 == IF cfg.get_daily_change THEN calculate_daily_changes(t0) ELSE t0
        t2 == IF cfg.get_rolling_average
              THEN calculate_rolling_average(t1, cfg.num_rolling_average_days) ELSE t1
        t3 == IF cfg.num_presort_countries # NoPresort
              THEN Head_(sort_data_ascending(t2), cfg.num_presort_countries) ELSE t2
        t4 == IF cfg.normalise_by_population
              THEN normalise_by_population_count(
                       t3, extract_matching_population_data(t3, file))
              ELSE t3
    IN  sort_data_ascending(t4)

\* adjust_for_time_differences with the threshold mask moved in front of the
\* daily-change and rolling-average transforms
adjust_threshold_first(covid_data, cfg, file) ==
    LET t0 == mask_above_threshold(preprocess_covid_data(covid_data), cfg.threshold)
        t1 == IF cfg.get_daily_change THEN calculate_daily_changes(t0) ELSE t0
        t2 == IF cfg.get_rolling_average
              THEN calculate_rolling_average(t1, cfg.num_rolling_average_days) ELSE t1
        t3 == IF cfg.num_presort_countries # NoPresort
              THEN Head_(sort_data_ascending(t2), cfg.num_presort_countries) ELSE t2
        a1 == IF cfg.normalise_by_population
              THEN normalise_by_population_count(
                       t3, extract_matching_population_data(t3, file))
              ELSE t3
        a2 == IF cfg.country_set # NoCountries
              THEN filter_country_set(a1, cfg.country_set) ELSE a1
    IN  IF cfg.num_presort_countries # NoPresort
        THEN Head_(sort_data_ascending(a2), cfg.num_presort_countries) ELSE a2

\* the table adjust_for_time_differences plots (adjusted_data)
adjust_for_time_differences(covid_data, cfg, file) ==
    LET t0 == preprocess_covid_data(covid_data)
        t1 == IF cfg.get_daily_change THEN calculate_daily_changes(t0) ELSE t0
        t2 == IF cfg.get_rolling_average
              THEN calculate_rolling_average(t1, cfg.num_rolling_average_days) ELSE t1
        t3 == IF cfg.num_presort_countries # NoPresort
              THEN Head_(sort_data_ascending(t2), cfg.num_presort_countries) ELSE t2
        a0 == mask_above_threshold(t3, cfg.threshold)
        a1 == IF cfg.normalise_by_population
              THEN normalise_by_population_count(
                       a0, extract_matching_population_data(a0, file))
              ELSE a0
        a2 == IF cfg.country_set # NoCountries
              THEN filter_country_set(a1, cfg.country_set) ELSE a1
    IN  IF cfg.num_presort_countries # NoPresort
        THEN Head_(sort_data_ascending(a2), cfg.num_presort_countries) ELSE a2

\* the processing pipeline: process_covid_data when no threshold is given,
\* adjust_for_time_differences (the variant that takes a threshold and a
\* country set) when one is
process(covid_data, cfg, file) ==
    IF cfg.threshold = None THEN process_covid_data(covid_data, cfg, file)
    ELSE adjust_for_time_differences(covid_data, cfg, file)

\* the reasons returned with a result for the countries left out of it: both
\* pipelines return the table alone, which carries row labels, column labels
\* and values and no reason
skip_reasons(result) == {}

\* process_covid_data(covid_data, processing_config), the call the request
\* handlers and the weekend analysis make: the pipeline with its keyword
\* arguments taken from the fields of the config of the same names
process_with_config(covid_data, processing_config, file) ==
    process(covid_data, processing_config, file)

----------------------------------------------------------------------------
(* The explored inputs *)

\* a row of whole counts
CountRow(c, v) == [name |-> c, vals |-> [j \in 1..Len(v) |-> Num(v[j])]]

\* the worked example of the specification: ten dates of cumulative US cases
ExampleSeries == <<1, 3, 6, 10, 15, 21, 28, 36, 45, 55>>

ExampleTable == <<CountRow("US", ExampleSeries)>>

\* one country over LongDates dates, any counts
LongTables ==
    {<<CountRow("US", v)>> : v \in [1..LongDates -> 0..MaxVal]}

\* Country/Region values of the raw rows; a name may repeat (one row per
\* sub-region) and the file lists its rows in ascending name order
RawNames == {"Canada", "Holy See", "Kosovo", "US"}

WideNames ==
    {ns \in [1..MaxRows -> RawNames] :
        \A i \in 1..(MaxRows - 1) : NameRank(ns[i]) <= NameRank(ns[i + 1])}

\* MaxRows sub-region rows over the first two dates of an outbreak: no case
\* on the first date, and on the second either none or the first one
FirstCases == {0, 1}

WideTables ==
    {[i \in 1..MaxRows |-> CountRow(ns[i], <<0, v[i]>>)] :
        ns \in WideNames, v \in [1..MaxRows -> FirstCases]}

RawTables == LongTables \cup WideTables \cup {ExampleTable}

\* the population file: World Bank names, 2018 head counts, in file order
PopFile ==
    <<[name |-> "United States", pop |-> Num(2000000)],
      [name |-> "Canada", pop |-> Num(500000)]>>

\* Country Name values of the population file: the keys of the alias table,
\* names with a ", The" suffix or a "St." prefix, names with other commas and
\* names the case data uses already
SourceNames ==
    DOMAIN country_name_aliases \cup
    {"Bahamas, The", "Gambia, The", "Congo, The, Rep.", "The, Gambia",
     "Korea, Rep.", "Micronesia, Fed. Sts.", "St. Lucia", "St. Kitts and Nevis",
     "St. Vincent and the Grenadines", "St. Martin (French part)",
     "Canada", "Kosovo", "US", "Czechia", "World", ""}

Windows(t) == 1..(IF t = ExampleTable THEN MaxWindow + 1 ELSE MaxWindow)

CountrySets == {NoCountries, {"US", "Kosovo"}}

\* the configurations process_covid_data takes (no threshold, no country set)
\* and those adjust_for_time_differences takes; an unused window is 1
Configs(t) ==
    {cfg \in [get_daily_change : BOOLEAN,
              get_rolling_average : BOOLEAN,
              normalise_by_population : BOOLEAN,
              num_rolling_average_days : Windows(t),
              num_presort_countries : {NoPresort} \cup (1..(MaxRows - 1)),
              threshold : {None} \cup (1..MaxThreshold),
              country_set : CountrySets] :
        /\ ~cfg.get_rolling_average => cfg.num_rolling_average_days = 1
        /\ cfg.threshold = None => cfg.country_set = NoCountries}

\* ProcessingConfigHolder()
DefaultConfig ==
    [get_daily_change |-> TRUE,
     get_rolling_average |-> TRUE,
     normalise_by_population |-> TRUE,
     num_rolling_average_days |-> 7,
     num_presort_countries |-> NoPresort,
     threshold |-> None,
     country_set |-> NoCountries]

----------------------------------------------------------------------------
(* The session: a caller starts from a raw table and either runs the        *)
(* pipeline on it (and once more on its result), or calls the transforms    *)
(* one by one, each on what the previous call returned, in the order the    *)
(* pipeline calls them.                                                     *)

\* position of a transform in the pipeline
StageOrder ==
    <<"init", "preprocess_covid_data", "calculate_daily_changes",
      "calculate_rolling_average", "normalise_by_population_count",
      "sort_data_ascending">>

StageRank(fn) == CHOOSE i \in 1..Len(StageOrder) : StageOrder[i] = fn

\* the caller may call transform fn next
MayCall(fn) ==
    /\ kind = "table"
    /\ call.fn \in {StageOrder[i] : i \in 1..Len(StageOrder)}
    /\ StageRank(call.fn) < StageRank(fn)

Init ==
    /\ raw \in RawTables
    /\ rawPop = PopFile
    /\ arg = raw
    /\ res = raw
    /\ call = [fn |-> "init", cfg |-> DefaultConfig]
    /\ kind = "raw"

Returns(fn, cfg, out, k) ==
    /\ arg' = res
    /\ res' = out
    /\ call' = [fn |-> fn, cfg |-> cfg]
    /\ kind' = k
    /\ UNCHANGED <<raw, rawPop>>

Preprocess ==
    /\ kind = "raw"
    /\ Returns("preprocess_covid_data", DefaultConfig, preprocess_covid_data(res), "table")

DailyChanges ==
    /\ MayCall("calculate_daily_changes")
    /\ Returns("calculate_daily_changes", DefaultConfig,
               calculate_daily_changes(res), "table")

RollingAverage ==
    /\ MayCall("calculate_rolling_average")
    /\ \E w \in Windows(raw) :
        Returns("calculate_rolling_average",
                [DefaultConfig EXCEPT !.num_rolling_average_days = w],
                calculate_rolling_average(res, w), "table")

ExtractPopulation ==
    /\ MayCall("normalise_by_population_count")
    /\ Returns("extract_matching_population_data", DefaultConfig,
               extract_matching_population_data(res, rawPop), "population")

Normalise ==
    /\ MayCall("normalise_by_population_count")
    /\ Returns("normalise_by_population_count", DefaultConfig,
               normalise_by_population_count(
                   res, extract_matching_population_data(res, rawPop)), "table")

SortData ==
    /\ MayCall("sort_data_ascending")
    /\ Returns("sort_data_ascending", DefaultConfig, sort_data_ascending(res), "table")

\* the canonical name of one Country Name of the population file
CanonicalName ==
    /\ kind = "raw"
    /\ \E x \in SourceNames :
        /\ arg' = x
        /\ res' = canonical_country_name(x)
        /\ call' = [fn |-> "canonical_country_name", cfg |-> DefaultConfig]
        /\ kind' = "name"
        /\ UNCHANGED <<raw, rawPop>>

\* process on the raw table
Process ==
    /\ kind = "raw"
    /\ \E cfg \in Configs(raw) :
        Returns("process", cfg, process(res, cfg, rawPop), "table")

\* process once more, on its own result, with the same configuration (for the
\* configurations without the daily-change and rolling-average transforms)
ProcessAgain ==
    /\ call.fn = "process"
    /\ ~call.cfg.get_daily_change
    /\ ~call.cfg.get_rolling_average
    /\ Returns("process_again", call.cfg, process(res, call.cfg, rawPop), "table")

Next ==
    \/ Preprocess
    \/ DailyChanges
    \/ RollingAverage
    \/ ExtractPopulation
    \/ Normalise
    \/ SortData
    \/ Process
    \/ ProcessAgain
    \/ CanonicalName

Spec == Init /\ [][Next]_vars

----------------------------------------------------------------------------
(* Dates *)

\* a column label "M/D/YY" of the year 2020 as its month and day
Date(m, d) == [m |-> m, d |-> d]

\* the days of the months of 2020
DaysInMonth == <<31, 29, 31, 30, 31, 30, 31, 31, 30, 31, 30, 31>>

RECURSIVE DaysBefore(_)
DaysBefore(m) == IF m = 1 THEN 0 ELSE DaysBefore(m - 1) + DaysInMonth[m - 1]

\* pd.to_datetime / strptime(date, "%m/%d/%y"): the day of the label, counted
\* from the start of the year
to_datetime(date) == DaysBefore(date.m) + date.d

\* the label of the day after date
NextDate(date) ==
    IF date.d < DaysInMonth[date.m] THEN Date(date.m, date.d + 1)
    ELSE Date(date.m + 1, 1)

\* n successive column labels from date on
RECURSIVE DateRange(_, _)
DateRange(date, n) ==
    IF n = 0 THEN <<>> ELSE <<date>> \o DateRange(NextDate(date), n - 1)

----------------------------------------------------------------------------
(* gmm_modelling.py *)

MIN_DATES == 5

\* what a call gives back: the value it returns, or the exception it raises
Returned(value) == [raised |-> "", value |-> value]

IndexError == [raised |-> "IndexError", value |-> <<>>]

\* covid_data.loc[country].dropna(): the present values of a row with their
\* column labels
country_series(columns, row) ==
    SelectSeq([j \in 1..Len(row.vals) |-> [date |-> columns[j], val |-> row.vals[j]]],
              LAMBDA p : ~IsNaN(p.val))

\* the positions of country_data[country_data >= threshold]
AtThreshold(country_data, threshold) ==
    {i \in 1..Len(country_data) : Ge(country_data[i].val, Num(threshold))}

\* np.mean of the values a prediction vector puts in component k (missing for
\* an empty component)
RECURSIVE ClassSum(_, _, _, _)
ClassSum(country_data, predictions, k, upto) ==
    IF upto = 0 THEN Num(0)
    ELSE LET rest == ClassSum(country_data, predictions, k, upto - 1)
         IN  IF predictions[upto] = k THEN Add(country_data[upto].val, rest) ELSE rest

class_mean(country_data, predictions, k) ==
    LET members == {i \in 1..Len(country_data) : predictions[i] = k}
    IN  IF members = {} THEN NaN
        ELSE Div(ClassSum(country_data, predictions, k, Len(country_data)),
                 Num(Cardinality(members)))

\* the '' put in the date list and in the data list where dates are not
\* consecutive
Gap == [text |-> ""]

\* lines 55-64, from position i on: the dates and values of a component
\* with a gap before every date that is not the day after its predecessor
RECURSIVE GapsFrom(_, _, _)
GapsFrom(date_list, covid_data, i) ==
    IF i > Len(date_list) THEN [date_list |-> <<>>, covid_data |-> <<>>]
    ELSE LET rest == GapsFrom(date_list, covid_data, i + 1)
             gap == to_datetime(date_list[i]) - 1 # to_datetime(date_list[i - 1])
         IN  [date_list |-> (IF gap THEN <<Gap>> ELSE <<>>) \o <<date_list[i]>>
                               \o rest.date_list,
              covid_data |-> (IF gap THEN <<Gap>> ELSE <<>>) \o <<covid_data[i]>>
                               \o rest.covid_data]

\* GapsFrom appending covid_data[index] in place of covid_data[index + 1]
RECURSIVE GapsFromWithEarlierValue(_, _, _)
GapsFromWithEarlierValue(date_list, covid_data, i) ==
    IF i > Len(date_list) THEN [date_list |-> <<>>, covid_data |-> <<>>]
    ELSE LET rest == GapsFromWithEarlierValue(date_list, covid_data, i + 1)
             gap == to_datetime(date_list[i]) - 1 # to_datetime(date_list[i - 1])
         IN  [date_list |-> (IF gap THEN <<Gap>> ELSE <<>>) \o <<date_list[i]>>
                               \o rest.date_list,
              covid_data |-> (IF gap THEN <<Gap>> ELSE <<>>) \o <<covid_data[i - 1]>>
                               \o rest.covid_data]

\* add_gaps_for_non_consecutive_dates with the value of the earlier date put
\* next to each date
add_gaps_with_earlier_values(gaussian_mixture_data) ==
    LET date_list == gaussian_mixture_data.date_list
        covid_data == gaussian_mixture_data.covid_data
    IN  IF Len(date_list) = 0 THEN IndexError
        ELSE LET rest == GapsFromWithEarlierValue(date_list, covid_data, 2)
             IN  Returned([date_list |-> <<date_list[1]>> \o rest.date_list,
                           covid_data |-> <<covid_data[1]>> \o rest.covid_data])

\* date_list[0] of an empty list raises
add_gaps_for_non_consecutive_dates(gaussian_mixture_data) ==
    LET date_list == gaussian_mixture_data.date_list
        covid_data == gaussian_mixture_data.covid_data
    IN  IF Len(date_list) = 0 THEN IndexError
        ELSE LET rest == GapsFrom(date_list, covid_data, 2)
             IN  Returned([date_list |-> <<date_list[1]>> \o rest.date_list,
                           covid_data |-> <<covid_data[1]>> \o rest.covid_data])

\* the values of a series
ValuesOf(country_data) == {country_data[i].val : i \in 1..Len(country_data)}

\* gmm.fit_predict(covid_values) for a fitted mixture that gives the value x
\* the component fit[x]: one component index per date
Predictions(country_data, fit) ==
    [i \in 1..Len(country_data) |-> fit[country_data[i].val]]

\* the fits the mixture model can end in: the component of a date is a
\* function of its value; a series of one repeated value is put in component
\* 0 whole (the second component starts empty and stays so), and a series of
\* several values has dates in both components
CanFit(country_data, fit) ==
    IF Cardinality(ValuesOf(country_data)) = 1
    THEN \A x \in ValuesOf(country_data) : fit[x] = 0
    ELSE {fit[x] : x \in ValuesOf(country_data)} = {0, 1}

\* lines 98-104: the present values from the first date on whose value is at
\* or above the threshold; .index[0] of an empty selection raises
truncate_at_threshold(country_data, threshold) ==
    IF AtThreshold(country_data, threshold) = {} THEN IndexError
    ELSE LET first == CHOOSE i \in AtThreshold(country_data, threshold) :
                          \A k \in AtThreshold(country_data, threshold) : i <= k
             first_threshold_exceeding_index == to_datetime(country_data[first].date)
         IN  Returned(SelectSeq(country_data,
                 LAMBDA p : to_datetime(p.date) >= first_threshold_exceeding_index))

\* s[predictions == k]: the elements of s at the dates put in component k
RECURSIVE Where(_, _, _, _)
Where(s, predictions, k, i) ==
    IF i > Len(s) THEN <<>>
    ELSE (IF predictions[i] = k THEN <<s[i]>> ELSE <<>>)
             \o Where(s, predictions, k, i + 1)

DatesOf(country_data) == [i \in 1..Len(country_data) |-> country_data[i].date]

DataOf(country_data) == [i \in 1..Len(country_data) |-> country_data[i].val]

\* f"{country} - {'Peak' if ... else 'Off-peak'}"
PlotName(country, is_peak) ==
    [country |-> country, label |-> IF is_peak THEN "Peak" ELSE "Off-peak"]

\* lines 112-135: the PlottingData of a country whose series went to the fit
plotting_data(country, country_data, predictions) ==
    LET class_one_mean == class_mean(country_data, predictions, 1)
        class_zero_mean == class_mean(country_data, predictions, 0)
        peak == IF Gt(class_one_mean, class_zero_mean) THEN 1 ELSE 0
        component_one_data ==
            [date_list |-> Where(DatesOf(country_data), predictions, 1, 1),
             covid_data |-> Where(DataOf(country_data), predictions, 1, 1)]
        adj_component_one_data == add_gaps_for_non_consecutive_dates(component_one_data)
    IN  IF adj_component_one_data.raised # "" THEN adj_component_one_data
        ELSE Returned(
                [full_date_list |-> DatesOf(country_data),
                 full_covid_data_list |-> DataOf(country_data),
                 state_1_date_list |-> adj_component_one_data.value.date_list,
                 state_1_covid_data_list |-> adj_component_one_data.value.covid_data,
                 class_1_plot_name |-> PlotName(country, peak = 1),
                 class_0_plot_name |-> PlotName(country, peak = 0)])

\* the loop of predict_peaks_using_gmm from row i on, plotting_data_list
\* holding what the earlier rows appended; fits[country] is the fit the
\* mixture model ends in on that country's series
RECURSIVE PredictFrom(_, _, _, _, _, _, _)
PredictFrom(covid_data, columns, threshold, country_set, fits, i, plotting_data_list) ==
    IF i > Len(covid_data) THEN Returned(plotting_data_list)
    ELSE LET country == covid_data[i].name
             truncated == truncate_at_threshold(
                              country_series(columns, covid_data[i]), threshold)
             country_data == truncated.value
             plot == plotting_data(country, country_data,
                                   Predictions(country_data, fits[country]))
         IN  IF country_set # NoCountries /\ country \notin country_set
             THEN PredictFrom(covid_data, columns, threshold, country_set, fits,
                              i + 1, plotting_data_list)
             ELSE IF truncated.raised # "" THEN truncated
             ELSE IF Len(country_data) < MIN_DATES
             THEN PredictFrom(covid_data, columns, threshold, country_set, fits,
                              i + 1, plotting_data_list)
             ELSE IF plot.raised # "" THEN plot
             ELSE PredictFrom(covid_data, columns, threshold, country_set, fits,
                              i + 1, Append(plotting_data_list, plot.value))

predict_peaks_using_gmm(covid_data, columns, threshold, country_set, fits) ==
    PredictFrom(covid_data, columns, threshold, country_set, fits, 1, <<>>)

\* the series of row i goes to the mixture fit when the loop gets to it
IsFitted(covid_data, columns, threshold, country_set, i) ==
    LET truncated == truncate_at_threshold(
                         country_series(columns, covid_data[i]), threshold)
    IN  /\ country_set # NoCountries => covid_data[i].name \in country_set
        /\ truncated.raised = ""
        /\ Len(truncated.value) >= MIN_DATES

\* s with p put after every element whose first date is not later
RECURSIVE InsertPlot(_, _)
InsertPlot(s, p) ==
    IF Len(s) = 0 THEN <<p>>
    ELSE IF to_datetime(p.full_date_list[1]) < to_datetime(s[1].full_date_list[1])
         THEN <<p>> \o s
         ELSE <<s[1]>> \o InsertPlot(Tail(s), p)

RECURSIVE SortPlots(_, _)
SortPlots(done, todo) ==
    IF Len(todo) = 0 THEN done ELSE SortPlots(InsertPlot(done, todo[1]), Tail(todo))

\* the characters of a label "M/D/YY" up to the year: digits as numbers, the
\* slash (which sorts before every digit) as -1
Digits(k) == IF k < 10 THEN <<k>> ELSE <<k \div 10, k % 10>>

LabelText(date) == Digits(date.m) \o <<-1>> \o Digits(date.d) \o <<-1>>

\* a < b as strings
RECURSIVE TextBefore(_, _)
TextBefore(a, b) ==
    IF Len(b) = 0 THEN FALSE
    ELSE IF Len(a) = 0 THEN TRUE
    ELSE IF a[1] # b[1] THEN a[1] < b[1]
    ELSE TextBefore(Tail(a), Tail(b))

RECURSIVE InsertPlotByLabel(_, _)
InsertPlotByLabel(s, p) ==
    IF Len(s) = 0 THEN <<p>>
    ELSE IF TextBefore(LabelText(p.full_date_list[1]), LabelText(s[1].full_date_list[1]))
         THEN <<p>> \o s
         ELSE <<s[1]>> \o InsertPlotByLabel(Tail(s), p)

RECURSIVE SortPlotsByLabel(_, _)
SortPlotsByLabel(done, todo) ==
    IF Len(todo) = 0 THEN done
    ELSE SortPlotsByLabel(InsertPlotByLabel(done, todo[1]), Tail(todo))

\* plot_peaks sorting the first dates as the strings they are, without
\* pd.to_datetime
plot_peaks_by_label(plotting_data_list) == SortPlotsByLabel(<<>>, plotting_data_list)

\* the PlottingData in the order plot_peaks adds their traces: np.argsort of
\* the first dates
plot_peaks(plotting_data_list) == SortPlots(<<>>, plotting_data_list)

----------------------------------------------------------------------------
(* Peak detection: predict_peaks_using_gmm on a processed table, then        *)
(* plot_peaks on the list it returned.                                       *)

\* the date columns of the tables handed to the peak detector: one date more
\* than the detector asks for, the end of September and the start of October
PeakColumns == DateRange(Date(9, 30), MIN_DATES + 1)

\* the values of a series: no case, or MaxVal cases
Counts == {Num(0), Num(MaxVal)}

\* a processed series: whole values, the first one possibly missing (as after
\* a daily change), or every value missing (as after a normalization without
\* a population)
PeakSeries ==
    {v \in [1..Len(PeakColumns) -> Counts \cup {NaN}] :
        \/ \A j \in 2..Len(PeakColumns) : ~IsNaN(v[j])
        \/ \A j \in 1..Len(PeakColumns) : IsNaN(v[j])}

\* a second country: a wave from the first date on, a wave from the second
\* date on, and no case at all
OtherSeries ==
    {[j \in 1..Len(PeakColumns) |-> Num(v[j])] :
        v \in {<<MaxVal, 0, MaxVal, MaxVal, 0, MaxVal>>,
               <<0, MaxVal, MaxVal, 0, MaxVal, MaxVal>>,
               <<0, 0, 0, 0, 0, 0>>}}

PeakTables ==
    {<<[name |-> "US", vals |-> v]>> : v \in PeakSeries}
    \cup {<<[name |-> "US", vals |-> v], [name |-> "Canada", vals |-> o]>> :
            v \in PeakSeries, o \in OtherSeries}
    \cup {<<[name |-> "Canada", vals |-> o], [name |-> "US", vals |-> v]>> :
            v \in PeakSeries, o \in OtherSeries}

PeakCountrySets == {NoCountries, {"US"}}

InitPeaks ==
    /\ raw \in PeakTables
    /\ rawPop = PopFile
    /\ arg = raw
    /\ res = raw
    /\ call = [fn |-> "init", cfg |-> DefaultConfig]
    /\ kind = "processed"

PredictPeaks ==
    /\ kind = "processed"
    /\ \E threshold \in 1..MaxThreshold, country_set \in PeakCountrySets,
          fits \in [Names(res) -> [Counts -> {0, 1}]] :
        LET out == predict_peaks_using_gmm(res, PeakColumns, threshold, country_set, fits)
        IN  /\ \A i \in 1..Len(res) :
                IsFitted(res, PeakColumns, threshold, country_set, i) =>
                    CanFit(truncate_at_threshold(
                               country_series(PeakColumns, res[i]), threshold).value,
                           fits[res[i].name])
            /\ arg' = res
            /\ res' = out.value
            /\ call' = [fn |-> "predict_peaks_using_gmm",
                        cfg |-> [DefaultConfig EXCEPT !.threshold = threshold,
                                                      !.country_set = country_set]]
            /\ kind' = IF out.raised # "" THEN out.raised ELSE "segments"
            /\ UNCHANGED <<raw, rawPop>>

PlotPeaks ==
    /\ kind = "segments"
    /\ arg' = res
    /\ res' = plot_peaks(res)
    /\ call' = [fn |-> "plot_peaks", cfg |-> call.cfg]
    /\ kind' = "figure"
    /\ UNCHANGED <<raw, rawPop>>

NextPeaks ==
    \/ PredictPeaks
    \/ PlotPeaks

SpecPeaks == InitPeaks /\ [][NextPeaks]_vars

----------------------------------------------------------------------------
(* The gap markers of one mixture component *)

\* the dates a component can hold: the end of February and the start of March
GapDates == DateRange(Date(2, 28), LongDates + 1)

\* the lists of at most LongDates elements of S
ListsOf(S) == UNION {[1..n -> S] : n \in 0..LongDates}

\* a component: dates in any order, a value for each date
Components ==
    {[date_list |-> d, covid_data |-> v] :
        d \in ListsOf({GapDates[j] : j \in 1..Len(GapDates)}), v \in ListsOf(Counts)}

InitGaps ==
    /\ raw \in {c \in Components : Len(c.date_list) = Len(c.covid_data)}
    /\ rawPop = PopFile
    /\ arg = raw
    /\ res = raw
    /\ call = [fn |-> "init", cfg |-> DefaultConfig]
    /\ kind = "component"

AddGaps ==
    /\ kind = "component"
    /\ LET out == add_gaps_for_non_consecutive_dates(res)
       IN  /\ arg' = res
           /\ res' = out.value
           /\ call' = [fn |-> "add_gaps_for_non_consecutive_dates", cfg |-> call.cfg]
           /\ kind' = IF out.raised # "" THEN out.raised ELSE "gaps"
           /\ UNCHANGED <<raw, rawPop>>

NextGaps == AddGaps

SpecGaps == InitGaps /\ [][NextGaps]_vars

----------------------------------------------------------------------------
(* weekend_effect_analysis.py *)

WEEKDAYS ==
    <<"Sunday", "Monday", "Tuesday", "Wednesday", "Thursday", "Friday", "Saturday">>

\* pd.to_datetime(col).day_name(): the first of January 2020 was a Wednesday
day_name(date) == WEEKDAYS[((to_datetime(date) + 2) % 7) + 1]

\* ProcessingConfigHolder() as constructed, no flag set afterwards
WeekendConfigAsConstructed == DefaultConfig

\* ProcessingConfigHolder() with get_rolling_average and
\* normalise_by_population set to False
WeekendConfig ==
    [DefaultConfig EXCEPT !.get_rolling_average = FALSE,
                          !.normalise_by_population = FALSE]

\* line 31: the table whose columns are renamed to weekdays and summed
weekend_input(covid_data, file) == process_with_config(covid_data, WeekendConfig, file)

\* covid_data.loc[:, covid_data.columns == day].sum(axis=1) for one row: the
\* sum of the present values in the columns from j on that fall on the day
RECURSIVE DaySum(_, _, _, _)
DaySum(vals, columns, day, j) ==
    IF j > Len(vals) THEN Num(0)
    ELSE LET rest == DaySum(vals, columns, day, j + 1)
         IN  IF day_name(columns[j]) = day /\ ~IsNaN(vals[j]) THEN Add(vals[j], rest)
             ELSE rest

\* summed_data.sum(axis=1) for one row
RECURSIVE RowSum(_, _)
RowSum(vals, j) ==
    IF j > Len(vals) THEN Num(0) ELSE Add(vals[j], RowSum(vals, j + 1))

Sign(k) == IF k > 0 THEN 1 ELSE IF k < 0 THEN -1 ELSE 0

\* the float x / y of present operands: a zero divisor gives an infinity with
\* the sign of x ([n |-> 1 or -1, d |-> 0]), or the missing value for 0 / 0
float_divide(x, y) == IF y.n = 0 THEN [n |-> Sign(x.n), d |-> 0] ELSE Div(x, y)

\* (x - 1/7) * 100; an infinity and the missing value stay what they are
deviation_in_percent(x) ==
    IF x.d = 0 THEN x ELSE Q((x.n * 7 - x.d) * 100, x.d * 7)

\* analyse_weekend_effects with the uniform share left in
analyse_weekend_shares(covid_data, columns, file) ==
    LET processed == weekend_input(covid_data, file)
    IN  [i \in 1..Len(processed) |->
            LET summed_data == [k \in 1..Len(WEEKDAYS) |->
                                   DaySum(processed[i].vals, columns, WEEKDAYS[k], 1)]
                total == RowSum(summed_data, 1)
            IN  [name |-> processed[i].name,
                 vals |-> [k \in 1..Len(WEEKDAYS) |->
                     LET x == float_divide(summed_data[k], total)
                     IN  IF x.d = 0 THEN x ELSE Q(x.n * 100, x.d)]]]

analyse_weekend_effects(covid_data, columns, file) ==
    LET processed == weekend_input(covid_data, file)
    IN  [i \in 1..Len(processed) |->
            LET summed_data == [k \in 1..Len(WEEKDAYS) |->
                                   DaySum(processed[i].vals, columns, WEEKDAYS[k], 1)]
                total == RowSum(summed_data, 1)
            IN  [name |-> processed[i].name,
                 vals |-> [k \in 1..Len(WEEKDAYS) |->
                     deviation_in_percent(float_divide(summed_data[k], total))]]]

----------------------------------------------------------------------------
(* The weekend analysis of a table of cumulative counts *)

\* the date columns: the first date of the case data (a Wednesday) and the
\* week after it, so that one weekday comes twice
WeekColumns == DateRange(Date(1, 22), Len(WEEKDAYS) + 1)

\* one country, any counts (a count may go down from one date to the next,
\* as after a correction of the source), and next to it possibly a country
\* on which nothing was ever reported
WeekTables ==
    {<<CountRow("US", v)>> : v \in [1..Len(WeekColumns) -> 0..MaxVal]}
    \cup {<<CountRow("Canada", [j \in 1..Len(WeekColumns) |-> 0]), CountRow("US", v)>> :
            v \in [1..Len(WeekColumns) -> 0..MaxVal]}

InitWeekend ==
    /\ raw \in WeekTables
    /\ rawPop = PopFile
    /\ arg = raw
    /\ res = raw
    /\ call = [fn |-> "init", cfg |-> DefaultConfig]
    /\ kind = "raw"

AnalyseWeekend ==
    /\ kind = "raw"
    /\ arg' = res
    /\ res' = analyse_weekend_effects(res, WeekColumns, rawPop)
    /\ call' = [fn |-> "analyse_weekend_effects", cfg |-> WeekendConfig,
                covid_data |-> weekend_input(res, rawPop)]
    /\ kind' = "weekdays"
    /\ UNCHANGED <<raw, rawPop>>

NextWeekend == AnalyseWeekend

SpecWeekend == InitWeekend /\ [][NextWeekend]_vars

----------------------------------------------------------------------------
(* auxiliary_data_analysis.py, for one country.  The stringency data of the *)
(* country is one value per date column of the government data (missing     *)
(* where the country has none); its mobility data is one row per category   *)
(* over the date columns of the mobility data.                              *)

\* fillna(method='ffill', axis=1): a missing value takes the last present one
\* before it
RECURSIVE ffill(_, _)
ffill(vals, j) ==
    IF j = 0 THEN <<>>
    ELSE LET before == ffill(vals, j - 1)
         IN  Append(before,
                    IF IsNaN(vals[j]) /\ j > 1 THEN before[j - 1] ELSE vals[j])

\* .rolling(num_rolling_average_days, axis=1).mean() of one row
rolling_mean(vals, num_rolling_average_days) ==
    calculate_rolling_average(<<[name |-> "", vals |-> vals]>>,
                              num_rolling_average_days)[1].vals

\* process_stringency_data without the dropna(): the dates whose rolling mean
\* is missing stay in the Series
process_stringency_data_keeping_missing(stringency, columns, num_rolling_average_days) ==
    LET rolled == rolling_mean(ffill(stringency, Len(stringency)),
                               num_rolling_average_days)
    IN  [j \in 1..Len(rolled) |-> [date |-> columns[j], val |-> rolled[j]]]

\* the Series of the country: the rolling mean of its forward-filled
\* stringency index with the dates, the missing values dropped
process_stringency_data(stringency, columns, num_rolling_average_days) ==
    country_series(columns,
        [name |-> "",
         vals |-> rolling_mean(ffill(stringency, Len(stringency)),
                               num_rolling_average_days)])

\* the columns of s at the positions of keep, in order
RECURSIVE Columns(_, _, _)
Columns(s, keep, j) ==
    IF j > Len(s) THEN <<>>
    ELSE (IF j \in keep THEN <<s[j]>> ELSE <<>>) \o Columns(s, keep, j + 1)

\* the rolling means of the country's mobility rows, without the columns in
\* which every row is missing (dropna(axis=1, how='all'))
process_mobility_data(mobility, columns, num_rolling_average_days) ==
    LET rolled == [i \in 1..Len(mobility) |->
                      rolling_mean(mobility[i].vals, num_rolling_average_days)]
        keep == {j \in 1..Len(columns) : \E i \in 1..Len(mobility) : ~IsNaN(rolled[i][j])}
    IN  [columns |-> Columns(columns, keep, 1),
         rows |-> [i \in 1..Len(mobility) |->
                      [name |-> mobility[i].name, vals |-> Columns(rolled[i], keep, 1)]]]

\* plot_mobility_and_government_data with the stringency trace cut strictly
\* inside the mobility dates
plot_inside_mobility_dates(holder, columns, num_rolling_average_days) ==
    LET stringency_data == process_stringency_data(
                               holder.stringency, columns, num_rolling_average_days)
        country_mobility_data == process_mobility_data(
                                     holder.mobility, columns, num_rolling_average_days)
    IN  IF Len(country_mobility_data.columns) = 0 THEN IndexError
        ELSE LET first_mobility_data_date == to_datetime(country_mobility_data.columns[1])
                 last_mobility_data_date == to_datetime(Last(country_mobility_data.columns))
             IN  Returned(
                    [stringency |-> SelectSeq(stringency_data,
                         LAMBDA p : /\ to_datetime(p.date) > first_mobility_data_date
                                    /\ to_datetime(p.date) < last_mobility_data_date),
                     mobility |-> [i \in 1..Len(country_mobility_data.rows) |->
                         [name |-> country_mobility_data.rows[i].name,
                          x |-> country_mobility_data.columns,
                          y |-> country_mobility_data.rows[i].vals]]])

\* the traces of the figure: the stringency trace cut to the mobility dates
\* and one trace per mobility row; columns[0] of a table without columns raises
plot_mobility_and_government_data(holder, columns, num_rolling_average_days) ==
    LET stringency_data == process_stringency_data(
                               holder.stringency, columns, num_rolling_average_days)
        country_mobility_data == process_mobility_data(
                                     holder.mobility, columns, num_rolling_average_days)
    IN  IF Len(country_mobility_data.columns) = 0 THEN IndexError
        ELSE LET first_mobility_data_date == to_datetime(country_mobility_data.columns[1])
                 last_mobility_data_date == to_datetime(Last(country_mobility_data.columns))
             IN  Returned(
                    [stringency |-> SelectSeq(stringency_data,
                         LAMBDA p : /\ to_datetime(p.date) >= first_mobility_data_date
                                    /\ to_datetime(p.date) <= last_mobility_data_date),
                     mobility |-> [i \in 1..Len(country_mobility_data.rows) |->
                         [name |-> country_mobility_data.rows[i].name,
                          x |-> country_mobility_data.columns,
                          y |-> country_mobility_data.rows[i].vals]]])

----------------------------------------------------------------------------
(* The mobility and government figure of one country *)

\* the date columns of both sources: the end of February and the start of
\* March
AuxColumns == DateRange(Date(2, 27), LongDates + 2)

\* the values x and MaxVal - x in turn at the positions lo..hi, none elsewhere
Observed(lo, hi, x) ==
    [j \in 1..Len(AuxColumns) |->
        IF j < lo \/ j > hi THEN NaN
        ELSE IF j % 2 = 1 THEN Num(x) ELSE Num(MaxVal - x)]

\* a stringency index observed from one date to a later one
StringencyData ==
    {Observed(lo, hi, x) : lo \in 1..Len(AuxColumns), hi \in 1..Len(AuxColumns),
                           x \in 0..MaxVal}

\* two mobility categories observed from one date to a later one, the second
\* possibly one date short at the start
MobilityData ==
    {<<[name |-> "Parks", vals |-> Observed(lo, hi, x)],
       [name |-> "Workplaces", vals |-> Observed(lo + late, hi, x)]>> :
        lo \in 1..Len(AuxColumns), hi \in 1..Len(AuxColumns), x \in 0..MaxVal,
        late \in 0..1}

InitAux ==
    /\ raw \in [stringency : StringencyData, mobility : MobilityData]
    /\ rawPop = PopFile
    /\ arg = raw
    /\ res = raw
    /\ call = [fn |-> "init", cfg |-> DefaultConfig]
    /\ kind = "auxiliary"

PlotMobilityAndGovernment ==
    /\ kind = "auxiliary"
    /\ \E w \in 1..MaxWindow :
        LET out == plot_mobility_and_government_data(res, AuxColumns, w)
        IN  /\ arg' = res
            /\ res' = out.value
            /\ call' = [fn |-> "plot_mobility_and_government_data",
                        cfg |-> [DefaultConfig EXCEPT !.num_rolling_average_days = w]]
            /\ kind' = IF out.raised # "" THEN out.raised ELSE "figure"
            /\ UNCHANGED <<raw, rawPop>>

NextAux == PlotMobilityAndGovernment

SpecAux == InitAux /\ [][NextAux]_vars

----------------------------------------------------------------------------
(* The table objects of the process.  A heap is a sequence of objects, an   *)
(* object is known by its position; a table object has column labels and    *)
(* rows.  A transform is given the position of its input and works on the   *)
(* heap: what pandas returns as a new object is appended, what the code     *)
(* assigns into an existing object is changed in place.                     *)

Table(columns, rows) == [type |-> "table", columns |-> columns, rows |-> rows]

\* the heap once an expression has returned a new object
new_object(heap, object) == Append(heap, object)

\* the heap once a transform has returned a new table over the columns of
\* covid_data: groupby(...).sum(), data - data.shift(1, axis=1),
\* data.rolling(...).mean(), data.sort_values(...) and data[data > threshold]
\* all build their result and leave data alone
new_table(heap, covid_data, rows) ==
    new_object(heap, Table(heap[covid_data].columns, rows))

\* normalised_data.loc[country] = ... for every country of the index: the rows
\* of the object are assigned one by one
assign_rows(heap, normalised_data, rows) ==
    [heap EXCEPT ![normalised_data].rows = rows]

\* covid_data.columns = [...]
assign_columns(heap, covid_data, columns) ==
    [heap EXCEPT ![covid_data].columns = columns]

\* extract_matching_population_data: the rows of the memoized population
\* table selected into a new table
extract_matching_population_data_on(heap, covid_data, population) ==
    new_object(heap,
        [type |-> "population",
         rows |-> extract_matching_population_data(heap[covid_data].rows,
                                                   heap[population].rows)])

\* normalise_by_population_count assigning into covid_data itself
normalise_without_copy(heap, covid_data, population_data) ==
    assign_rows(heap, covid_data,
        normalise_by_population_count(heap[covid_data].rows,
                                      heap[population_data].rows))

\* normalise_by_population_count: the rows are assigned into a copy of
\* covid_data, and the copy is returned
normalise_by_population_count_on(heap, covid_data, population_data) ==
    LET copied == new_object(heap, heap[covid_data])
        normalised_data == Len(copied)
    IN  assign_rows(copied, normalised_data,
            normalise_by_population_count(copied[covid_data].rows,
                                          copied[population_data].rows))

\* analyse_weekend_effects: covid_data is rebound to the table the processing
\* returns, the columns of that table are renamed to weekdays in place, and
\* the deviations are a further new table
analyse_weekend_effects_on(heap, covid_data, file) ==
    LET columns == heap[covid_data].columns
        processed == new_table(heap, covid_data,
                               weekend_input(heap[covid_data].rows, file))
        renamed == assign_columns(processed, Len(processed),
                       [j \in 1..Len(columns) |-> day_name(columns[j])])
    IN  new_object(renamed,
            [type |-> "weekdays",
             columns |-> WEEKDAYS,
             rows |-> analyse_weekend_effects(heap[covid_data].rows, columns, file)])

\* predict_peaks_using_gmm reads covid_data.loc[country].dropna(), a new
\* Series, and returns a new list; nothing is returned when it raises
predict_peaks_using_gmm_on(heap, covid_data, threshold, fits) ==
    LET out == predict_peaks_using_gmm(heap[covid_data].rows, heap[covid_data].columns,
                                       threshold, NoCountries, fits)
    IN  IF out.raised # "" THEN heap
        ELSE new_object(heap, [type |-> "segments", list |-> out.value])

----------------------------------------------------------------------------
(* Sequences of transform calls on the memoized tables *)

\* the date columns of the source table
FrameColumns == PeakColumns

\* the memoized case table: a country without a population next to a country
\* with one, both with rising counts, or the second country alone
FrameTables ==
    {<<CountRow("US", <<1, 2, 4, 7, 8, 9>>)>>,
     <<CountRow("Kosovo", <<0, 1, 1, 2, 2, 2>>), CountRow("US", <<1, 2, 4, 7, 8, 9>>)>>}

\* object 1 is LATEST_COVID_DATA.cases_data, object 2 the table
\* fetch_population_data() caches
SOURCE == 1
POPULATION == 2

InitFrames ==
    /\ raw \in FrameTables
    /\ rawPop = PopFile
    /\ res = <<Table(FrameColumns, raw), [type |-> "population", rows |-> rawPop]>>
    /\ arg = res
    /\ call = [fn |-> "init", input |-> SOURCE]
    /\ kind = "heap"

\* the tables a call is made on: the memoized source, or the table the last
\* transform returned
Inputs(heap) ==
    {SOURCE} \cup (IF Last(heap).type = "table" THEN {Len(heap)} ELSE {})

\* a call of fn on object id that leaves the heap as after
Called(fn, id, after) ==
    /\ Len(after) <= MaxObjects
    /\ arg' = res
    /\ res' = after
    /\ call' = [fn |-> fn, input |-> id]
    /\ UNCHANGED <<raw, rawPop, kind>>

FramePreprocess ==
    \E id \in Inputs(res) :
        Called("preprocess_covid_data", id,
               new_table(res, id, preprocess_covid_data(res[id].rows)))

FrameThreshold ==
    \E id \in Inputs(res) :
        Called("mask_above_threshold", id,
               new_table(res, id, mask_above_threshold(res[id].rows, MaxThreshold)))

FrameDailyChanges ==
    \E id \in Inputs(res) :
        Called("calculate_daily_changes", id,
               new_table(res, id, calculate_daily_changes(res[id].rows)))

FrameRollingAverage ==
    \E id \in Inputs(res) :
        Called("calculate_rolling_average", id,
               new_table(res, id, calculate_rolling_average(res[id].rows, MaxWindow)))

FrameSort ==
    \E id \in Inputs(res) :
        Called("sort_data_ascending", id,
               new_table(res, id, sort_data_ascending(res[id].rows)))

FrameNormalise ==
    \E id \in Inputs(res) :
        LET extracted == extract_matching_population_data_on(res, id, POPULATION)
        IN  Called("normalise_by_population_count", id,
                   normalise_by_population_count_on(extracted, id, Len(extracted)))

FrameWeekend ==
    \E id \in Inputs(res) :
        Called("analyse_weekend_effects", id,
               analyse_weekend_effects_on(res, id, res[POPULATION].rows))

\* x is the largest present value of a row
IsRowMax(vals, x) ==
    ~IsNaN(x) /\ \A j \in 1..Len(vals) : IsNaN(vals[j]) \/ Ge(x, vals[j])

\* fits that put the largest value of a country in one component and its
\* other values in the other
FrameFits(rows) ==
    {[country \in Names(rows) |->
         LET vals == rows[CHOOSE i \in 1..Len(rows) : rows[i].name = country].vals
         IN  [x \in {vals[j] : j \in 1..Len(vals)} |->
                 IF IsRowMax(vals, x) THEN high ELSE 1 - high]] :
        high \in {0, 1}}

FramePeaks ==
    \E id \in Inputs(res) :
      \E fits \in FrameFits(res[id].rows) :
        /\ \A i \in 1..Len(res[id].rows) :
            IsFitted(res[id].rows, FrameColumns, MaxThreshold, NoCountries, i) =>
                CanFit(truncate_at_threshold(
                           country_series(FrameColumns, res[id].rows[i]),
                           MaxThreshold).value,
                       fits[res[id].rows[i].name])
        /\ Called("predict_peaks_using_gmm", id,
                  predict_peaks_using_gmm_on(res, id, MaxThreshold, fits))

NextFrames ==
    \/ FramePreprocess
    \/ FrameThreshold
    \/ FrameDailyChanges
    \/ FrameRollingAverage
    \/ FrameSort
    \/ FrameNormalise
    \/ FrameWeekend
    \/ FramePeaks

SpecFrames == InitFrames /\ [][NextFrames]_vars

----------------------------------------------------------------------------
(* The processing configs of the web layer.  A store holds the defaults of   *)
(* the class ProcessingConfigHolder and the instances alive; an instance is  *)
(* known by its position.                                                    *)

\* the field defaults of the dataclass
HolderDefaults ==
    [f \in DOMAIN DefaultConfig \cup {"covid_data_type"} |->
        IF f = "covid_data_type" THEN "infections" ELSE DefaultConfig[f]]

\* BASE_PROCESSING_CONFIG, constructed when the module is loaded
BASE_PROCESSING_CONFIG == 1

\* the handlers taking BASE_PROCESSING_CONFIG in place of a new instance
ProcessingConfigHolder_shared(store) == store

\* ProcessingConfigHolder(): a new instance whose fields are set from the
\* defaults of the class
ProcessingConfigHolder(store) ==
    [store EXCEPT !.instances = Append(@, store.class)]

\* processing_config.<field> = value
setattr(store, processing_config, field, value) ==
    [store EXCEPT !.instances[processing_config][field] = value]

RESPONSE_MAP == [Yes |-> TRUE, No |-> FALSE]

\* the three assignments every form leads to once it is submitted
set_format(store, processing_config, form) ==
    LET daily == setattr(store, processing_config, "get_daily_change",
                         RESPONSE_MAP[form.daily_changes])
        rolling == setattr(daily, processing_config, "get_rolling_average",
                           RESPONSE_MAP[form.rolling_average])
    IN  setattr(rolling, processing_config, "normalise_by_population",
                RESPONSE_MAP[form.population_normaliser])

\* what each caller does to its config between the construction and the
\* reading of the form
route_overrides(route, store, processing_config) ==
    CASE route = "get_single_country_data" -> store
      [] route = "get_peak_predictions" ->
            setattr(store, processing_config, "country_set",
                    {"Belgium", "United Kingdom", "US"})
      [] route = "get_country_comparisons" ->
            setattr(store, processing_config, "num_presort_countries", 50)
      [] route = "analyse_weekend_effects" ->
            setattr(setattr(store, processing_config, "get_rolling_average", FALSE),
                    processing_config, "normalise_by_population", FALSE)

\* the assignments under form.validate_on_submit()
form_changes(route, store, processing_config, form) ==
    IF ~form.submitted THEN store
    ELSE CASE route = "get_single_country_data" ->
                set_format(store, processing_config, form)
           [] route = "get_peak_predictions" ->
                set_format(setattr(store, processing_config, "country_set",
                                   form.countries),
                           processing_config, form)
           [] route = "get_country_comparisons" ->
                setattr(setattr(set_format(store, processing_config, form),
                                processing_config, "threshold",
                                IF form.adjust_for_time_diff = "Yes"
                                THEN 10 ELSE None),
                        processing_config, "covid_data_type", form.data_type)
           [] route = "analyse_weekend_effects" -> store

\* the local name of the handler goes away when it returns; the module-level
\* instance stays
release(store, processing_config) ==
    IF processing_config = BASE_PROCESSING_CONFIG THEN store
    ELSE [store EXCEPT !.instances = SubSeq(@, 1, processing_config - 1)]

YES_NO_CHOICES == {"Yes", "No"}

types_of_data == {"infections", "deaths", "recoveries", "active cases", "tests"}

\* a form as the handler of a route sees it: the selections of a submitted
\* form, or the field defaults of a form that was not submitted
Forms(route) ==
    LET formats == [submitted : {TRUE}, daily_changes : YES_NO_CHOICES,
                    rolling_average : YES_NO_CHOICES,
                    population_normaliser : YES_NO_CHOICES,
                    adjust_for_time_diff : IF route = "get_country_comparisons"
                                           THEN YES_NO_CHOICES ELSE {"Yes"},
                    data_type : IF route = "get_country_comparisons"
                                THEN types_of_data ELSE {"infections"},
                    countries : IF route = "get_peak_predictions"
                                THEN {{}, {"US"}, {"Belgium", "US"}}
                                ELSE {{}}]
        unsubmitted == [submitted |-> FALSE, daily_changes |-> "Yes",
                        rolling_average |-> "Yes", population_normaliser |-> "Yes",
                        adjust_for_time_diff |-> "Yes", data_type |-> "infections",
                        countries |-> {}]
    IN  IF route = "analyse_weekend_effects" THEN {unsubmitted}
        ELSE formats \cup {unsubmitted}

Routes ==
    {"get_single_country_data", "get_peak_predictions", "get_country_comparisons",
     "analyse_weekend_effects"}

InitConfig ==
    /\ raw = [class |-> HolderDefaults, instances |-> <<HolderDefaults>>]
    /\ rawPop = PopFile
    /\ arg = HolderDefaults
    /\ res = raw
    /\ call = [fn |-> "init", form |-> <<>>, cfg |-> HolderDefaults]
    /\ kind = "configs"

\* one request (or one call of analyse_weekend_effects): arg is the config the
\* caller starts from, call.cfg the config it hands to the pipeline, res the
\* store it leaves
Request ==
    /\ kind = "configs"
    /\ \E route \in Routes :
        \E form \in Forms(route) :
            LET constructed == ProcessingConfigHolder(res)
                processing_config == Len(constructed.instances)
                started == route_overrides(route, constructed, processing_config)
                handled == form_changes(route, started, processing_config, form)
            IN  /\ arg' = started.instances[processing_config]
                /\ call' = [fn |-> route, form |-> form,
                            cfg |-> handled.instances[processing_config]]
                /\ res' = release(handled, processing_config)
                /\ UNCHANGED <<raw, rawPop, kind>>

SpecConfig == InitConfig /\ [][Request]_vars

----------------------------------------------------------------------------
(* Shared vocabulary of the properties *)

cfg == call.cfg

ThresholdSet == cfg.threshold # None

PresortSet == cfg.num_presort_countries # NoPresort

\* the pipeline has run once, on the raw table arg
Processed == call.fn = "process"

Cell(t, i, j) == t[i].vals[j]

Index(t) == [i \in 1..Len(t) |-> t[i].name]

\* the row of country c in a table with unique names
RowOf(t, c) == t[CHOOSE i \in 1..Len(t) : t[i].name = c]

\* the rows are non-increasing by their last value, missing values last
SortedDescending(t) ==
    \A i \in 1..Len(t), k \in 1..Len(t) :
        i < k => ~Before(Last(t[k].vals), Last(t[i].vals))

\* one stage of the pipeline, applied to t if the configuration enables it
Stage(s, t, c, file) ==
    CASE s = "daily delta" ->
            IF c.get_daily_change THEN calculate_daily_changes(t) ELSE t
      [] s = "rolling average" ->
            IF c.get_rolling_average
            THEN calculate_rolling_average(t, c.num_rolling_average_days) ELSE t
      [] s = "presort" ->
            IF c.num_presort_countries # NoPresort
            THEN Head_(sort_data_ascending(t), c.num_presort_countries) ELSE t
      [] s = "threshold" ->
            IF c.threshold # None THEN mask_above_threshold(t, c.threshold) ELSE t
      [] s = "normalise" ->
            IF c.normalise_by_population
            THEN normalise_by_population_count(
                     t, extract_matching_population_data(t, file))
            ELSE t
      [] s = "allow-list" ->
            IF c.country_set # NoCountries THEN filter_country_set(t, c.country_set)
            ELSE t
      [] s = "final sort" ->
            IF c.threshold = None THEN sort_data_ascending(t)
            ELSE IF c.num_presort_countries # NoPresort
                 THEN Head_(sort_data_ascending(t), c.num_presort_countries)
                 ELSE t

RECURSIVE InOrder(_, _, _, _)
InOrder(stages, t, c, file) ==
    IF Len(stages) = 0 THEN t
    ELSE InOrder(Tail(stages), Stage(stages[1], t, c, file), c, file)

ClaimedOrder ==
    <<"threshold", "daily delta", "rolling average", "presort", "normalise",
      "allow-list", "final sort">>

ActualOrder ==
    <<"daily delta", "rolling average", "presort", "threshold", "normalise",
      "allow-list", "final sort">>

----------------------------------------------------------------------------
----------------------------------------------------------------------------
\* the pipeline ran with only the threshold filter enabled
OnlyThreshold ==
    /\ Processed
    /\ ThresholdSet
    /\ ~cfg.get_daily_change
    /\ ~cfg.get_rolling_average
    /\ ~cfg.normalise_by_population
    /\ ~PresortSet
    /\ cfg.country_set = NoCountries

(* C2: the threshold filter turns every value below the threshold into a     *)
(* missing value and keeps every value at or above the threshold (a value    *)
(* equal to it included) at its own country and date.  Refuted by the code:  *)
(* a value equal to the threshold becomes missing.                           *)
C2_KeepsValuesAtThreshold ==
    OnlyThreshold =>
        LET before == preprocess_covid_data(arg)
        IN  /\ Index(res) = Index(before)
            /\ \A i \in 1..Len(res), j \in 1..NumCols(res) :
                IF Ge(Cell(before, i, j), Num(cfg.threshold))
                THEN Cell(res, i, j) = Cell(before, i, j)
                ELSE IsNaN(Cell(res, i, j))

----------------------------------------------------------------------------
\* the head count of country c in the population file, in millions
RECURSIVE MillionsOf(_, _)
MillionsOf(file, c) ==
    IF country_name_mapper(file[1].name) = c
    THEN [n |-> file[1].pop.n, d |-> PER_MILLION]
    ELSE MillionsOf(Tail(file), c)

HasPopulation(file, c) ==
    \E k \in 1..Len(file) : country_name_mapper(file[k].name) = c

Normalised == call.fn = "normalise_by_population_count"

(* C3: population normalization keeps every country row in place; a row      *)
(* whose country has a population has each value divided by that population  *)
(* in millions (value * millions.d * count = input * 1000000, as fractions), *)
(* and a row whose country has none is missing throughout.                   *)
C3_NormalisedByPopulation ==
    Normalised =>
        /\ Index(res) = Index(arg)
        /\ \A i \in 1..Len(res), j \in 1..NumCols(arg) :
            IF HasPopulation(rawPop, arg[i].name)
            THEN LET p == MillionsOf(rawPop, arg[i].name)
                     x == Cell(arg, i, j)
                     y == Cell(res, i, j)
                 IN  /\ IsNaN(y) <=> IsNaN(x)
                     /\ y.n * p.n * x.d = x.n * p.d * y.d
            ELSE IsNaN(Cell(res, i, j))

\* a table with a matched country holding a non-zero value and an unmatched one
C3_Witness ==
    /\ Normalised
    /\ \E i \in 1..Len(res) :
        /\ HasPopulation(rawPop, arg[i].name)
        /\ ~IsNaN(Last(res[i].vals))
        /\ Last(res[i].vals).n # 0
        /\ Last(res[i].vals) # Last(arg[i].vals)
    /\ \E i \in 1..Len(res) :
        /\ ~HasPopulation(rawPop, arg[i].name)
        /\ ~IsNaN(Last(arg[i].vals))

----------------------------------------------------------------------------
Extracted == call.fn = "extract_matching_population_data"

\* the canonical names of the population file, in file order
FileIndex(file) == [k \in 1..Len(file) |-> country_name_mapper(file[k].name)]

\* s lists its elements in the order t lists them
SameOrderAs(s, t) ==
    \A i \in 1..Len(s), k \in 1..Len(s) :
        i < k => \E a \in 1..Len(t), b \in 1..Len(t) :
                    a < b /\ t[a] = s[i] /\ t[b] = s[k]

(* C4 (as stated): the population table returned for a series table has the  *)
(* index of the series table, the same countries in the same order.  Refuted:*)
(* a country without a population entry is absent and the order is that of   *)
(* the population file.                                                      *)
C4_IndexedIdentically == Extracted => Index(res) = Index(arg)

(* C4 (amended): the population table returned for a series table holds      *)
(* exactly the countries of the series table that have an entry in the       *)
(* population data, each once, in the order of the population data.          *)
C4_MatchingCountriesInFileOrder ==
    Extracted =>
        /\ Names(res) = {c \in Names(arg) : HasPopulation(rawPop, c)}
        /\ Len(res) = Cardinality(Names(res))
        /\ SameOrderAs(Index(res), FileIndex(rawPop))

\* a series table with an unmatched country and two matched ones
C4_Witness ==
    /\ Extracted
    /\ Len(res) = 2
    /\ Len(arg) = 3

----------------------------------------------------------------------------
(* C5: whatever the configuration, presort-top-N set or not, the rows the    *)
(* pipeline returns are non-increasing by their last value, with the rows    *)
(* whose last value is missing after all the others.  Refuted by the code:   *)
(* with a threshold set and presort-top-N unset no final sort is made.       *)
C5_OutputSortedDescending == Processed => SortedDescending(res)

----------------------------------------------------------------------------
\* the table the presort ranks: the preprocessed input after the enabled
\* daily-change and rolling-average transforms, before any normalization
Ranked == InOrder(<<"daily delta", "rolling average">>,
                  preprocess_covid_data(arg), cfg, rawPop)

\* the number of rows of t that sort strictly before the row of country c
RowsAhead(t, c) ==
    Cardinality({i \in 1..Len(t) : Before(Last(t[i].vals), Last(RowOf(t, c).vals))})

Min(a, b) == IF a < b THEN a ELSE b

----------------------------------------------------------------------------
ProcessedTwice == call.fn = "process_again"

(* C7 (as stated): with daily delta and rolling average disabled, whatever   *)
(* the other settings, the pipeline applied to its own result returns that   *)
(* result.  Refuted: population normalization divides a second time.         *)
C7_IdempotentWithoutTransforms == ProcessedTwice => res = arg

\* the rows of t as a set
Rows(t) == {t[i] : i \in 1..Len(t)}

\* every row has a last value and no two rows have the same
NoTies(t) ==
    /\ \A i \in 1..Len(t) : ~IsNaN(Last(t[i].vals))
    /\ \A i \in 1..Len(t), k \in 1..Len(t) :
        i # k => Last(t[i].vals) # Last(t[k].vals)

(* C7 (amended): with daily delta, rolling average and population            *)
(* normalization all disabled, the pipeline applied to its own result        *)
(* returns the same countries with the same values; the rows are also in the *)
(* same order when presort-top-N is unset or when every row has a last value *)
(* and no two rows share one (with a presort, rows whose last values are     *)
(* equal or missing may change places).                                      *)
C7_IdempotentWithoutNormalisation ==
    (ProcessedTwice /\ ~cfg.normalise_by_population) =>
        /\ Rows(res) = Rows(arg)
        /\ Len(res) = Len(arg)
        /\ (~PresortSet \/ NoTies(arg)) => res = arg

\* a second run, with a presort, over a result of several countries with
\* different last values
C7_Witness ==
    /\ ProcessedTwice
    /\ ~cfg.normalise_by_population
    /\ PresortSet
    /\ Len(arg) > 1
    /\ NoTies(arg)

----------------------------------------------------------------------------
DeltaTaken == call.fn = "calculate_daily_changes"

CountCells(v) == [j \in 1..Len(v) |-> Num(v[j])]

(* C8: the daily delta keeps every country row in place, makes the first     *)
(* date missing and puts at every later date the input value minus the       *)
(* previous one (missing when either is); the series 1,3,6,10,15,21,28,36,   *)
(* 45,55 gives missing,2,3,4,5,6,7,8,9,10.                                   *)
C8_DailyDelta ==
    DeltaTaken =>
        /\ Index(res) = Index(arg)
        /\ \A i \in 1..Len(res) :
            /\ Len(res[i].vals) = Len(arg[i].vals)
            /\ IsNaN(Cell(res, i, 1))
            /\ \A j \in 2..Len(arg[i].vals) :
                LET x == Cell(arg, i, j)
                    w == Cell(arg, i, j - 1)
                    y == Cell(res, i, j)
                IN  IF IsNaN(x) \/ IsNaN(w) THEN IsNaN(y)
                    ELSE ~IsNaN(y) /\ y.n * x.d * w.d = (x.n * w.d - w.n * x.d) * y.d
        /\ arg = ExampleTable =>
               res[1].vals = <<NaN>> \o CountCells(<<2, 3, 4, 5, 6, 7, 8, 9, 10>>)

\* the daily delta of the worked example has been taken
C8_Witness == DeltaTaken /\ arg = ExampleTable

----------------------------------------------------------------------------
Averaged == call.fn = "calculate_rolling_average"

\* v[lo] + ... + v[hi] of present values as a fraction <<numerator, denominator>>
RECURSIVE Total(_, _, _)
Total(v, lo, hi) ==
    IF lo > hi THEN <<0, 1>>
    ELSE LET rest == Total(v, lo, hi - 1)
         IN  <<rest[1] * v[hi].d + v[hi].n * rest[2], rest[2] * v[hi].d>>

(* C9: the rolling average with window w is missing at every date with fewer *)
(* than w dates up to it or with a missing value among its last w dates, and *)
(* is elsewhere the mean of the last w values (output * w = their sum);      *)
(* with w = 3 on the daily delta of the worked example the first three dates *)
(* are missing and the fourth is 3.                                          *)
C9_RollingAverage ==
    Averaged =>
        LET w == cfg.num_rolling_average_days
        IN  /\ Index(res) = Index(arg)
            /\ \A i \in 1..Len(res) :
                /\ Len(res[i].vals) = Len(arg[i].vals)
                /\ \A j \in 1..Len(arg[i].vals) :
                    LET y == Cell(res, i, j)
                    IN  IF j >= w /\ \A k \in (j - w + 1)..j : ~IsNaN(Cell(arg, i, k))
                        THEN LET sum == Total(arg[i].vals, j - w + 1, j)
                             IN  ~IsNaN(y) /\ y.n * w * sum[2] = sum[1] * y.d
                        ELSE IsNaN(y)
            /\ (w = 3 /\ arg = calculate_daily_changes(ExampleTable)) =>
                   /\ \A j \in 1..3 : IsNaN(Cell(res, 1, j))
                   /\ Cell(res, 1, 4) = Num(3)

\* the rolling average over 3 dates of the worked example's daily delta
C9_Witness ==
    /\ Averaged
    /\ cfg.num_rolling_average_days = 3
    /\ arg = calculate_daily_changes(ExampleTable)

----------------------------------------------------------------------------
Preprocessed == call.fn = "preprocess_covid_data"

\* the sum of column j over the rows of t named c, row by row
RECURSIVE CountrySum(_, _, _, _)
CountrySum(t, c, j, upto) ==
    IF upto = 0 THEN 0
    ELSE CountrySum(t, c, j, upto - 1) + (IF t[upto].name = c THEN t[upto].vals[j].n ELSE 0)

(* C10: the preprocessor returns exactly one row for every distinct country  *)
(* name of the raw table that is not on the denylist and none for a          *)
(* denylisted name, each value being the sum of that date over the country's *)
(* sub-region rows; so it returns no more rows than the raw table has        *)
(* distinct country names.                                                   *)
C10_PreprocessorGroups ==
    Preprocessed =>
        /\ Names(res) = Names(arg) \ data_to_drop
        /\ Len(res) = Cardinality(Names(res))
        /\ Len(res) <= Cardinality(Names(arg))
        /\ \A i \in 1..Len(res), j \in 1..NumCols(arg) :
            Cell(res, i, j) = Num(CountrySum(arg, res[i].name, j, Len(arg)))

\* a raw table with two sub-region rows of one country and a denylisted name
C10_Witness ==
    /\ Preprocessed
    /\ Len(arg) = 3
    /\ Len(res) = 1
    /\ Names(arg) \cap data_to_drop # {}
    /\ Last(res[1].vals) = Num(2)

----------------------------------------------------------------------------
Canonicalised == call.fn = "canonical_country_name"

\* the names the ", The" and "St." rewritings of fetch_population_data change
RewrittenNames ==
    {"Bahamas, The", "Gambia, The", "Congo, The, Rep.", "St. Lucia",
     "St. Kitts and Nevis", "St. Vincent and the Grenadines",
     "St. Martin (French part)"}

(* C11: the name normalizer returns for every key of the alias table the     *)
(* name the table maps it to ("United States" gives "US", "Czech Republic"   *)
(* gives "Czechia") and returns every other name that has no ", The" suffix  *)
(* and no "St." unchanged; every input string has a result.                  *)
C11_AliasesMappedOthersUnchanged ==
    Canonicalised =>
        /\ arg \in DOMAIN country_name_aliases => res = country_name_aliases[arg]
        /\ arg = "United States" => res = "US"
        /\ arg = "Czech Republic" => res = "Czechia"
        /\ (arg \notin DOMAIN country_name_aliases /\ arg \notin RewrittenNames) =>
               res = arg

\* a name with a comma that is neither a key nor rewritten has passed through
C11_Witness ==
    /\ Canonicalised
    /\ arg = "Micronesia, Fed. Sts."
    /\ res = arg

----------------------------------------------------------------------------
(* Vocabulary of the peak detector's properties *)

PeaksPredicted == call.fn = "predict_peaks_using_gmm"

\* the row is one the caller selected
Selected(row) == cfg.country_set = NoCountries \/ row.name \in cfg.country_set

\* the present values of a row from the first one at or above threshold t on,
\* with their dates
PostThreshold(row, t) ==
    SelectSeq([j \in 1..Len(row.vals) |-> [date |-> PeakColumns[j], val |-> row.vals[j]]],
              LAMBDA p : /\ ~IsNaN(p.val)
                         /\ \E k \in 1..Len(row.vals) :
                             /\ to_datetime(PeakColumns[k]) <= to_datetime(p.date)
                             /\ Ge(row.vals[k], Num(t)))

\* the selected rows of table t with enough history after the threshold
Eligible(t) ==
    {i \in 1..Len(t) :
        Selected(t[i]) /\ Len(PostThreshold(t[i], cfg.threshold)) >= MIN_DATES}

\* every selected row of table t has a value at or above the threshold
AllReachThreshold(t) ==
    \A i \in 1..Len(t) :
        Selected(t[i]) => \E j \in 1..Len(t[i].vals) : Ge(t[i].vals[j], Num(cfg.threshold))

\* every eligible row of table t has two different values after the threshold
AllVaried(t) ==
    \A i \in Eligible(t) :
        Cardinality(ValuesOf(PostThreshold(t[i], cfg.threshold))) > 1

\* the countries of a list of PlottingData
Detected(list) == {list[i].class_0_plot_name.country : i \in 1..Len(list)}

\* the positions of a segment's dates that carry the label
Labelled(seg, label) ==
    {i \in 1..Len(seg.full_date_list) :
        IF \E k \in 1..Len(seg.state_1_date_list) :
               seg.state_1_date_list[k] = seg.full_date_list[i]
        THEN seg.class_1_plot_name.label = label
        ELSE seg.class_0_plot_name.label = label}

RECURSIVE SumAt(_, _)
SumAt(seg, S) ==
    IF S = {} THEN 0
    ELSE LET i == CHOOSE k \in S : TRUE
         IN  seg.full_covid_data_list[i].n + SumAt(seg, S \ {i})

\* both sets of positions hold a date and the mean value over A is at least
\* that over B (whole values)
MeanAtLeast(seg, A, B) ==
    /\ A # {}
    /\ B # {}
    /\ SumAt(seg, A) * Cardinality(B) >= SumAt(seg, B) * Cardinality(A)

(* C12: every selected country with at least 5 dates after the threshold     *)
(* truncation has a segment in which each retained date carries exactly one  *)
(* of the labels Peak and Off-peak, and the mean of the values labelled Peak *)
(* is at least the mean of those labelled Off-peak.  Refuted by the code     *)
(* (here for tables whose selected countries all reach the threshold): a     *)
(* series whose dates all go to component 0 raises an IndexError.            *)
C12_EveryDateLabelled ==
    (PeaksPredicted /\ AllReachThreshold(arg)) =>
        /\ kind = "segments"
        /\ \A i \in Eligible(arg) :
            \E k \in 1..Len(res) :
                /\ res[k].class_0_plot_name.country = arg[i].name
                /\ Len(res[k].full_date_list) = Len(PostThreshold(arg[i], cfg.threshold))
                /\ {res[k].class_0_plot_name.label, res[k].class_1_plot_name.label}
                       = {"Peak", "Off-peak"}
                /\ Labelled(res[k], "Peak") \cup Labelled(res[k], "Off-peak")
                       = 1..Len(res[k].full_date_list)
                /\ Labelled(res[k], "Peak") \cap Labelled(res[k], "Off-peak") = {}
                /\ MeanAtLeast(res[k], Labelled(res[k], "Peak"),
                               Labelled(res[k], "Off-peak"))

----------------------------------------------------------------------------
(* C13: the peak detector raises no error for a country with too little      *)
(* history after the threshold, a country that never reaches the threshold   *)
(* or has no present value included: the result is a list holding exactly    *)
(* the selected countries with at least 5 dates after the threshold.         *)
(* Refuted by the code (here for tables whose eligible series hold two       *)
(* different values, so that the fit is not at issue): a selected country    *)
(* with no value at or above the threshold raises an IndexError.             *)
C13_SkipsWithoutError ==
    (PeaksPredicted /\ AllVaried(arg)) =>
        /\ kind = "segments"
        /\ Detected(res) = {arg[i].name : i \in Eligible(arg)}

----------------------------------------------------------------------------
PeaksPlotted == call.fn = "plot_peaks"

(* C14: the segments are drawn in ascending order of their first dates, each *)
(* segment of the list once, whatever the order of the countries in the      *)
(* list, their names and their values.                                       *)
C14_OrderedByFirstDate ==
    PeaksPlotted =>
        /\ Len(res) = Len(arg)
        /\ Rows(res) = Rows(arg)
        /\ \A i \in 1..Len(res), k \in 1..Len(res) :
            i < k => to_datetime(res[i].full_date_list[1])
                         <= to_datetime(res[k].full_date_list[1])

\* two segments listed with the later start first; the earlier start is in
\* September ("9/30/20", the later label as a string) and belongs to the
\* country with the later name
C14_Witness ==
    /\ PeaksPlotted
    /\ Len(res) = 2
    /\ arg[1].class_0_plot_name.country = "Canada"
    /\ res[1].class_0_plot_name.country = "US"
    /\ res[1].full_date_list[1] = Date(9, 30)
    /\ res[2].full_date_list[1] = Date(10, 1)

----------------------------------------------------------------------------
(* C20: for every selected country the series that goes to the mixture fit   *)
(* holds exactly the present values from the first date on whose value is at *)
(* or above the threshold (later values below it included); the country is   *)
(* in the result when 5 or more such dates remain and absent when fewer do.  *)
(* Refuted by the code (here for tables whose selected countries all reach   *)
(* the threshold): a country with 5 dates of one repeated value raises an    *)
(* IndexError instead of being kept.                                         *)
C20_TruncatedAtThreshold ==
    (PeaksPredicted /\ AllReachThreshold(arg)) =>
        /\ kind = "segments"
        /\ Detected(res) = {arg[i].name : i \in Eligible(arg)}
        /\ \A i \in Eligible(arg) :
            \E k \in 1..Len(res) :
                /\ res[k].class_0_plot_name.country = arg[i].name
                /\ res[k].full_date_list = DatesOf(PostThreshold(arg[i], cfg.threshold))
                /\ res[k].full_covid_data_list
                       = DataOf(PostThreshold(arg[i], cfg.threshold))

----------------------------------------------------------------------------
WeekendAnalysed == call.fn = "analyse_weekend_effects"

\* the day-to-day increments of row that fall on the weekday, added up over
\* the columns 2..upto
RECURSIVE Increments(_, _, _)
Increments(row, day, upto) ==
    IF upto < 2 THEN 0
    ELSE Increments(row, day, upto - 1)
         + (IF day_name(WeekColumns[upto]) = day
            THEN row.vals[upto].n - row.vals[upto - 1].n ELSE 0)

\* all the increments of row: the last count minus the first
TotalIncrement(row) == Last(row.vals).n - row.vals[1].n

RECURSIVE SumOfCells(_)
SumOfCells(v) == IF Len(v) = 0 THEN Num(0) ELSE Add(v[1], SumOfCells(Tail(v)))

----------------------------------------------------------------------------
(* Properties of the mobility and government figure *)

AuxPlotted == call.fn = "plot_mobility_and_government_data"

Window == call.cfg.num_rolling_average_days

\* the days on which the rolling mean of some mobility category of the input
\* is present: the days of the country's mobility series
MobilityDays ==
    {to_datetime(AuxColumns[j]) : j \in
        {j \in Window..Len(AuxColumns) :
            \E i \in 1..Len(arg.mobility) :
                \A k \in (j - Window + 1)..j : ~IsNaN(arg.mobility[i].vals[k])}}

\* the days on which the rolling mean of the forward-filled stringency index
\* of the input is present: the days of the country's stringency series
StringencyDays ==
    {to_datetime(AuxColumns[j]) : j \in
        {j \in Window..Len(AuxColumns) :
            \E k \in 1..(j - Window + 1) : ~IsNaN(arg.stringency[k])}}

SetMin(S) == CHOOSE x \in S : \A y \in S : x <= y

SetMax(S) == CHOOSE x \in S : \A y \in S : x >= y

\* day lies between the first and the last day of S
InRange(day, S) == S # {} /\ SetMin(S) <= day /\ day <= SetMax(S)

StringencyTraceDays == {to_datetime(res.stringency[j].date) : j \in 1..Len(res.stringency)}

TraceDays(trace) == {to_datetime(trace.x[j]) : j \in 1..Len(trace.x)}

(* C16: in the mobility and government figure the stringency trace holds    *)
(* exactly the days of the country's stringency series that lie between the *)
(* first and the last day of its mobility series, both ends included; every *)
(* mobility trace holds all the days of the mobility series, whatever the   *)
(* days of the stringency series are.                                       *)
C16_StringencyClippedToMobility ==
    (AuxPlotted /\ kind = "figure") =>
        /\ StringencyTraceDays = {day \in StringencyDays : InRange(day, MobilityDays)}
        /\ Len(res.mobility) = Len(arg.mobility)
        /\ \A i \in 1..Len(res.mobility) : TraceDays(res.mobility[i]) = MobilityDays

\* the stringency series starts after the mobility series and goes on after
\* it: its later days are cut, the earlier mobility days are kept
C16_Witness ==
    /\ AuxPlotted
    /\ kind = "figure"
    /\ Len(res.stringency) > 1
    /\ SetMax(StringencyDays) > SetMax(MobilityDays)
    /\ SetMin(StringencyDays) > SetMin(MobilityDays)
    /\ SetMin(StringencyTraceDays) = SetMin(StringencyDays)
    /\ SetMax(StringencyTraceDays) = SetMax(MobilityDays)
    /\ \E i \in 1..Len(res.mobility) :
           SetMin(TraceDays(res.mobility[i])) < SetMin(StringencyDays)

(* C17 as stated: every trace of the figure, the stringency trace and the   *)
(* mobility traces alike, has its days inside the intersection of the date  *)
(* ranges of the stringency series and of the mobility series.              *)
C17_AllTracesInIntersection ==
    (AuxPlotted /\ kind = "figure") =>
        /\ \A day \in StringencyTraceDays :
               InRange(day, StringencyDays) /\ InRange(day, MobilityDays)
        /\ \A i \in 1..Len(res.mobility) : \A day \in TraceDays(res.mobility[i]) :
               InRange(day, StringencyDays) /\ InRange(day, MobilityDays)

(* C17 amended: the stringency trace has its days inside the intersection   *)
(* of the two date ranges; the mobility traces are left whole, so their     *)
(* days are inside the date range of the mobility series, and inside the    *)
(* intersection when the mobility range lies within the stringency range.   *)
C17_StringencyInIntersection ==
    (AuxPlotted /\ kind = "figure") =>
        /\ \A day \in StringencyTraceDays :
               InRange(day, StringencyDays) /\ InRange(day, MobilityDays)
        /\ \A i \in 1..Len(res.mobility) : \A day \in TraceDays(res.mobility[i]) :
               /\ InRange(day, MobilityDays)
               /\ (/\ InRange(SetMin(MobilityDays), StringencyDays)
                   /\ InRange(SetMax(MobilityDays), StringencyDays))
                  => InRange(day, StringencyDays)

\* a stringency series that starts before the mobility series and ends after
\* it, under a window of more than one day: every trace is in the overlap
C17_Witness ==
    /\ AuxPlotted
    /\ kind = "figure"
    /\ Window > 1
    /\ StringencyDays # {}
    /\ SetMin(StringencyDays) < SetMin(MobilityDays)
    /\ SetMax(StringencyDays) > SetMax(MobilityDays)
    /\ StringencyTraceDays = MobilityDays
    /\ Cardinality(MobilityDays) > 1

----------------------------------------------------------------------------
(* Skipped countries *)

SKIP_LABELS == {"below threshold", "no population match", "insufficient history"}

\* country has no row in t, or a row without a single value
LeftOut(t, country) ==
    \/ country \notin Names(t)
    \/ \A j \in 1..NumCols(t) : IsNaN(RowOf(t, country).vals[j])

(* C18: whenever a country of the processed table is absent from the result *)
(* of the pipeline, or has only missing values in it, the result comes with *)
(* a reason for that country, one of "below threshold", "no population      *)
(* match" and "insufficient history".                                       *)
C18_SkipReasonsLabelled ==
    Processed =>
        \A country \in Names(preprocess_covid_data(arg)) :
            LeftOut(res, country) =>
                \E label \in skip_reasons(res) :
                    label.country = country /\ label.reason \in SKIP_LABELS

----------------------------------------------------------------------------
(* Frame effects of the transforms *)

\* the last call was a transform on a table of the heap
TransformCalled == kind = "heap" /\ call.fn # "init"

(* C19: a call of a transform leaves every table that existed before the    *)
(* call with the values, row labels and column labels it had, the table     *)
(* passed in included; so after any sequence of calls the memoized source   *)
(* table and the memoized population table are what they were at the start. *)
C19_InputsNeverMutated ==
    kind = "heap" =>
        /\ Len(res) >= Len(arg)
        /\ \A id \in 1..Len(arg) : res[id] = arg[id]
        /\ res[SOURCE] = Table(FrameColumns, raw)
        /\ res[POPULATION].rows = rawPop

\* the normalization was called on the table an earlier transform returned:
\* its rows were assigned into a copy and the table passed in kept its values
C19_Witness ==
    /\ TransformCalled
    /\ call.fn = "normalise_by_population_count"
    /\ call.input # SOURCE
    /\ Len(res) = Len(arg) + 2
    /\ Last(res).type = "table"
    /\ Last(res).rows # res[call.input].rows
    /\ res[call.input].rows # res[SOURCE].rows

----------------------------------------------------------------------------
(* The overlay of a segment *)

\* the positions of a segment's dates that are in its overlay
Overlaid(seg) ==
    {i \in 1..Len(seg.full_date_list) :
        \E k \in 1..Len(seg.state_1_date_list) :
            seg.state_1_date_list[k] = seg.full_date_list[i]}

\* a list without its gap markers
WithoutGaps(list) == SelectSeq(list, LAMBDA x : x # Gap)

\* the elements of list at the positions of S, in order
RECURSIVE At(_, _, _)
At(list, S, i) ==
    IF i > Len(list) THEN <<>>
    ELSE (IF i \in S THEN <<list[i]>> ELSE <<>>) \o At(list, S, i + 1)

(* C21: in every returned segment the overlay holds, gap markers apart, the  *)
(* dates and values of the component with the higher mean: the values of the *)
(* overlay go with its dates, and their mean is at least the mean of the     *)
(* values left out of it.  Refuted by the code: the overlay is component 1,  *)
(* also when component 0 has the higher mean.                                *)
C21_OverlayIsPeakComponent ==
    (PeaksPredicted /\ kind = "segments") =>
        \A k \in 1..Len(res) :
            LET seg == res[k]
                rest == (1..Len(seg.full_date_list)) \ Overlaid(seg)
            IN  /\ WithoutGaps(seg.state_1_date_list)
                       = At(seg.full_date_list, Overlaid(seg), 1)
                /\ WithoutGaps(seg.state_1_covid_data_list)
                       = At(seg.full_covid_data_list, Overlaid(seg), 1)
                /\ rest # {} => MeanAtLeast(seg, Overlaid(seg), rest)

----------------------------------------------------------------------------
(* Gap markers *)

GapsAdded == call.fn = "add_gaps_for_non_consecutive_dates"

\* the positions of dates, from the second on, whose date is not the calendar
\* day after the date before it
Breaks(dates) ==
    {i \in 2..Len(dates) : to_datetime(dates[i]) # to_datetime(dates[i - 1]) + 1}

\* the position in the output of the input element i: one further for every
\* break up to i
Placed(dates, i) == i + Cardinality({b \in Breaks(dates) : b <= i})

(* C22: for a non-empty list of dates the output has every input date, in    *)
(* order, and a gap marker right before a date exactly when that date is not *)
(* the calendar day after the one before it; the values have their markers   *)
(* at the same positions and each value stays with its date; the output is   *)
(* longer than the input by the number of such dates, and without the        *)
(* markers it is the input.                                                  *)
C22_GapsBetweenNonConsecutiveDates ==
    (GapsAdded /\ Len(arg.date_list) > 0) =>
        /\ kind = "gaps"
        /\ Len(res.date_list) = Len(arg.date_list) + Cardinality(Breaks(arg.date_list))
        /\ Len(res.covid_data) = Len(res.date_list)
        /\ \A i \in 1..Len(arg.date_list) :
            /\ res.date_list[Placed(arg.date_list, i)] = arg.date_list[i]
            /\ res.covid_data[Placed(arg.date_list, i)] = arg.covid_data[i]
        /\ \A p \in 1..Len(res.date_list) :
            /\ (res.date_list[p] = Gap) = (res.covid_data[p] = Gap)
            /\ (res.date_list[p] = Gap) =
                   (\E b \in Breaks(arg.date_list) : p = Placed(arg.date_list, b) - 1)
        /\ WithoutGaps(res.date_list) = arg.date_list
        /\ WithoutGaps(res.covid_data) = arg.covid_data

\* the leap day and the first of March stay together; the second of March
\* followed by the twenty-eighth of February gets a marker, with the values
\* in step
C22_Witness ==
    /\ GapsAdded
    /\ arg.date_list = <<Date(2, 29), Date(3, 1), Date(2, 28)>>
    /\ arg.covid_data = <<Num(0), Num(MaxVal), Num(0)>>
    /\ res.date_list = <<Date(2, 29), Date(3, 1), Gap, Date(2, 28)>>
    /\ res.covid_data = <<Num(0), Num(MaxVal), Gap, Num(0)>>

----------------------------------------------------------------------------
(* The table the weekend analysis sums *)

\* the day-to-day increments of a row of whole counts: none for the first
\* date
PlainDelta(row) ==
    [name |-> row.name,
     vals |-> [j \in 1..Len(row.vals) |->
                  IF j = 1 THEN NaN ELSE Num(row.vals[j].n - row.vals[j - 1].n)]]

----------------------------------------------------------------------------
(* Processing configs *)

\* the default field values with the fixed overrides of a route
StartOf(route) ==
    LET defaults == [covid_data_type |-> "infections",
                     get_daily_change |-> TRUE,
                     get_rolling_average |-> TRUE,
                     normalise_by_population |-> TRUE,
                     num_rolling_average_days |-> 7,
                     num_presort_countries |-> NoPresort,
                     threshold |-> None,
                     country_set |-> NoCountries]
    IN  CASE route = "get_single_country_data" -> defaults
          [] route = "get_peak_predictions" ->
                [defaults EXCEPT !.country_set = {"Belgium", "United Kingdom", "US"}]
          [] route = "get_country_comparisons" ->
                [defaults EXCEPT !.num_presort_countries = 50]
          [] route = "analyse_weekend_effects" ->
                [defaults EXCEPT !.get_rolling_average = FALSE,
                                 !.normalise_by_population = FALSE]

(* C24: after any sequence of requests and of calls of the weekend analysis, *)
(* whatever the forms held, a caller starts from the default field values    *)
(* with the fixed overrides of its route only, and the defaults of the class *)
(* and the shared base config hold the default values.                       *)
C24_ConfigPerRequest ==
    kind = "configs" =>
        /\ res.class = StartOf("get_single_country_data")
        /\ res.instances = <<StartOf("get_single_country_data")>>
        /\ call.fn # "init" => arg = StartOf(call.fn)

\* a comparison request that switched three flags off and chose a data type,
\* and left the store as it was
C24_Witness ==
    /\ kind = "configs"
    /\ call.fn = "get_country_comparisons"
    /\ call.form.submitted
    /\ ~call.cfg.get_daily_change
    /\ ~call.cfg.get_rolling_average
    /\ ~call.cfg.normalise_by_population
    /\ call.cfg.threshold = 10
    /\ call.cfg.covid_data_type = "deaths"
    /\ arg.get_daily_change
    /\ res = raw

====
